---- MODULE Spec2Model ----
(***************************************************************************)
(* Model of the nestjs-dto filter translator (QueryParser): the mapping    *)
(* of (field, operator, value) conditions and a logical operator to a      *)
(* relational where-object and to a document-store query, and of a sort    *)
(* field and direction to a sort object.                                   *)
(*                                                                         *)
(* JavaScript values are tagged records.  A string is a sequence of        *)
(* one-character strings, so that template literals (concatenation) and    *)
(* toUpperCase are computed character by character.  An object is a        *)
(* function from its property names to values.  A call ends in an outcome: *)
(* a returned value or a thrown error.                                     *)
(***************************************************************************)
EXTENDS Integers, Sequences, FiniteSets

----------------------------------------------------------------------------
(* JavaScript values *)

Undefined == [t |-> "undefined"]
Null == [t |-> "null"]
Num(n) == [t |-> "number", n |-> n]
Str(s) == [t |-> "string", s |-> s]
Arr(a) == [t |-> "array", a |-> a]
Obj(o) == [t |-> "object", o |-> o]

EmptyObject == Obj(<<>>)
Obj1(k, v) == Obj([x \in {k} |-> v])
Obj2(k1, v1, k2, v2) == Obj([x \in {k1, k2} |-> IF x = k1 THEN v1 ELSE v2])

Return(v) == [kind |-> "return", value |-> v]
TypeError == [kind |-> "throw", value |-> Str(<<"T", "y", "p", "e", "E", "r", "r", "o", "r">>)]

(* !x for the values that occur as arguments: undefined, null, '' and 0
   are falsy, every array and object is truthy. *)
Falsy(v) ==
    \/ v.t \in {"undefined", "null"}
    \/ v.t = "string" /\ v.s = <<>>
    \/ v.t = "number" /\ v.n = 0

(* Number.prototype.toString for integers. *)
Digit == <<"0", "1", "2", "3", "4", "5", "6", "7", "8", "9">>
RECURSIVE NatToString(_)
NatToString(n) ==
    IF n < 10 THEN <<Digit[n + 1]>>
    ELSE NatToString(n \div 10) \o <<Digit[(n % 10) + 1]>>
IntToString(n) == IF n < 0 THEN <<"-">> \o NatToString(-n) ELSE NatToString(n)

(* The string conversion a template literal `${value}` applies. *)
RECURSIVE ToString(_)
RECURSIVE Join(_, _)
Join(a, i) ==
    IF i > Len(a) THEN <<>>
    ELSE (IF i > 1 THEN <<",">> ELSE <<>>)
         \o (IF a[i].t \in {"undefined", "null"} THEN <<>> ELSE ToString(a[i]))
         \o Join(a, i + 1)
ToString(v) ==
    CASE v.t = "undefined" -> <<"u", "n", "d", "e", "f", "i", "n", "e", "d">>
      [] v.t = "null" -> <<"n", "u", "l", "l">>
      [] v.t = "number" -> IntToString(v.n)
      [] v.t = "string" -> v.s
      [] v.t = "array" -> Join(v.a, 1)
      [] v.t = "object" ->
            <<"[", "o", "b", "j", "e", "c", "t", " ", "O", "b", "j", "e", "c", "t", "]">>

(* value[i]: a TypeError on undefined and null, the element of an array or
   the character of a string when there is one, undefined otherwise. *)
GetIndex(v, i) ==
    CASE v.t \in {"undefined", "null"} -> TypeError
      [] v.t = "array" -> Return(IF i + 1 <= Len(v.a) THEN v.a[i + 1] ELSE Undefined)
      [] v.t = "string" -> Return(IF i + 1 <= Len(v.s) THEN Str(<<v.s[i + 1]>>) ELSE Undefined)
      [] OTHER -> Return(Undefined)

(* String.prototype.toUpperCase on ASCII letters. *)
LowerCase == <<"a", "b", "c", "d", "e", "f", "g", "h", "i", "j", "k", "l", "m",
               "n", "o", "p", "q", "r", "s", "t", "u", "v", "w", "x", "y", "z">>
UpperCase == <<"A", "B", "C", "D", "E", "F", "G", "H", "I", "J", "K", "L", "M",
               "N", "O", "P", "Q", "R", "S", "T", "U", "V", "W", "X", "Y", "Z">>
UpperChar(c) ==
    IF \E i \in DOMAIN LowerCase : LowerCase[i] = c
    THEN UpperCase[CHOOSE i \in DOMAIN LowerCase : LowerCase[i] = c]
    ELSE c
toUpperCase(s) == [i \in DOMAIN s |-> UpperChar(s[i])]

(* Spread with the operands swapped, { ...condition, ...acc }. *)
SpreadKeepFirst(acc, condition) ==
    Obj([k \in DOMAIN acc.o \cup DOMAIN condition.o |->
            IF k \in DOMAIN acc.o THEN acc.o[k] ELSE condition.o[k]])

(* { ...acc, ...condition }: the keys of both, condition's value on a clash. *)
Spread(acc, condition) ==
    Obj([k \in DOMAIN acc.o \cup DOMAIN condition.o |->
            IF k \in DOMAIN condition.o THEN condition.o[k] ELSE acc.o[k]])

----------------------------------------------------------------------------
(* enum FilterOperator, enum LogicalOperator *)

EQUALS == <<"e", "q">>
NOT_EQUALS == <<"n", "e">>
GREATER_THAN == <<"g", "t">>
GREATER_THAN_OR_EQUAL == <<"g", "t", "e">>
LESS_THAN == <<"l", "t">>
LESS_THAN_OR_EQUAL == <<"l", "t", "e">>
LIKE == <<"l", "i", "k", "e">>
IN_ == <<"i", "n">>
NOT_IN == <<"n", "i", "n">>
BETWEEN == <<"b", "e", "t", "w", "e", "e", "n">>
IS_NULL == <<"n", "u", "l", "l">>
IS_NOT_NULL == <<"n", "o", "t", "n", "u", "l", "l">>
CONTAINS == <<"c", "o", "n", "t", "a", "i", "n", "s">>
STARTS_WITH == <<"s", "t", "a", "r", "t", "s", "W", "i", "t", "h">>
ENDS_WITH == <<"e", "n", "d", "s", "W", "i", "t", "h">>

FilterOperator ==
    {EQUALS, NOT_EQUALS, GREATER_THAN, GREATER_THAN_OR_EQUAL, LESS_THAN,
     LESS_THAN_OR_EQUAL, LIKE, IN_, NOT_IN, BETWEEN, IS_NULL, IS_NOT_NULL,
     CONTAINS, STARTS_WITH, ENDS_WITH}

AND == Str(<<"A", "N", "D">>)
OR == Str(<<"O", "R">>)

(* Property names the translators write. *)
k_ne == <<"$", "n", "e">>
k_gt == <<"$", "g", "t">>
k_gte == <<"$", "g", "t", "e">>
k_lt == <<"$", "l", "t">>
k_lte == <<"$", "l", "t", "e">>
k_like == <<"$", "l", "i", "k", "e">>
k_in == <<"$", "i", "n">>
k_nin == <<"$", "n", "i", "n">>
k_between == <<"$", "b", "e", "t", "w", "e", "e", "n">>
k_regex == <<"$", "r", "e", "g", "e", "x">>
k_options == <<"$", "o", "p", "t", "i", "o", "n", "s">>
k_or == <<"$", "o", "r">>
k_and == <<"$", "a", "n", "d">>

----------------------------------------------------------------------------
(* class QueryParser *)

(* The template literal closed before its trailing text. *)
wildcardNoSuffix(prefix, value, suffix) == Str(prefix \o ToString(value))

(* The template literals `%${value}%`, `${value}%`, `%${value}`. *)
wildcard(prefix, value, suffix) == Str(prefix \o ToString(value) \o suffix)

(* A default case that drops the condition. *)
defaultFragmentEmpty(field, value) == EmptyObject

(* default: return { [field]: value } *)
defaultFragment(field, value) == Obj1(field, value)

(* private static parseFilterCondition(filter) *)
parseFilterCondition(filter) ==
    LET field == filter.field
        operator == filter.operator
        value == filter.value
    IN CASE operator = EQUALS -> Obj1(field, value)
         [] operator = NOT_EQUALS -> Obj1(field, Obj1(k_ne, value))
         [] operator = GREATER_THAN -> Obj1(field, Obj1(k_gt, value))
         [] operator = GREATER_THAN_OR_EQUAL -> Obj1(field, Obj1(k_gte, value))
         [] operator = LESS_THAN -> Obj1(field, Obj1(k_lt, value))
         [] operator = LESS_THAN_OR_EQUAL -> Obj1(field, Obj1(k_lte, value))
         [] operator \in {LIKE, CONTAINS} ->
                Obj1(field, Obj1(k_like, wildcard(<<"%">>, value, <<"%">>)))
         [] operator = STARTS_WITH ->
                Obj1(field, Obj1(k_like, wildcard(<<>>, value, <<"%">>)))
         [] operator = ENDS_WITH ->
                Obj1(field, Obj1(k_like, wildcard(<<"%">>, value, <<>>)))
         [] operator = IN_ -> Obj1(field, Obj1(k_in, value))
         [] operator = NOT_IN -> Obj1(field, Obj1(k_nin, value))
         [] operator = BETWEEN -> Obj1(field, Obj1(k_between, value))
         [] operator = IS_NULL -> Obj1(field, Null)
         [] operator = IS_NOT_NULL -> Obj1(field, Obj1(k_ne, Null))
         [] OTHER -> defaultFragment(field, value)

(* conditions.reduce((acc, condition) => ({ ...acc, ...condition }), {}),
   from index i on. *)
RECURSIVE Reduce(_, _, _)
Reduce(conditions, i, acc) ==
    IF i > Len(conditions) THEN acc
    ELSE Reduce(conditions, i + 1, Spread(acc, conditions[i]))

(* toTypeORMWhere without the OR branch: every list is merged. *)
toTypeORMWhereAlwaysMerge(filters, logicalOperator) ==
    IF Falsy(filters) \/ Len(filters.a) = 0 THEN Return(EmptyObject)
    ELSE LET conditions == [i \in DOMAIN filters.a |-> parseFilterCondition(filters.a[i])]
         IN Return(Reduce(conditions, 1, EmptyObject))

(* toTypeORMWhere whose guard tests only for an absent list. *)
toTypeORMWhereNoLengthGuard(filters, logicalOperator) ==
    IF Falsy(filters) THEN Return(EmptyObject)
    ELSE LET conditions == [i \in DOMAIN filters.a |-> parseFilterCondition(filters.a[i])]
             lo == IF logicalOperator = Undefined THEN AND ELSE logicalOperator
         IN IF lo = OR THEN Return(Arr(conditions))
            ELSE Return(Reduce(conditions, 1, EmptyObject))

(* static toTypeORMWhere(filters?, logicalOperator = AND) *)
toTypeORMWhere(filters, logicalOperator) ==
    IF Falsy(filters) \/ Len(filters.a) = 0 THEN Return(EmptyObject)
    ELSE LET conditions == [i \in DOMAIN filters.a |-> parseFilterCondition(filters.a[i])]
             lo == IF logicalOperator = Undefined THEN AND ELSE logicalOperator
         IN IF lo = OR THEN Return(Arr(conditions))
            ELSE Return(Reduce(conditions, 1, EmptyObject))

(* The range with both ends read from value[0]. *)
mongoBetweenSameIndex(field, value) ==
    LET lo == GetIndex(value, 0)
    IN IF lo.kind = "throw" THEN lo
       ELSE Return(Obj1(field, Obj2(k_gte, lo.value, k_lte, lo.value)))

(* case BETWEEN: return { [field]: { $gte: value[0], $lte: value[1] } } *)
mongoBetween(field, value) ==
    LET lo == GetIndex(value, 0)
        hi == GetIndex(value, 1)
    IN IF lo.kind = "throw" THEN lo
       ELSE IF hi.kind = "throw" THEN hi
       ELSE Return(Obj1(field, Obj2(k_gte, lo.value, k_lte, hi.value)))

(* private static parseMongoFilterCondition(filter) *)
parseMongoFilterCondition(filter) ==
    LET field == filter.field
        operator == filter.operator
        value == filter.value
        i == Str(<<"i">>)
    IN CASE operator = EQUALS -> Return(Obj1(field, value))
         [] operator = NOT_EQUALS -> Return(Obj1(field, Obj1(k_ne, value)))
         [] operator = GREATER_THAN -> Return(Obj1(field, Obj1(k_gt, value)))
         [] operator = GREATER_THAN_OR_EQUAL -> Return(Obj1(field, Obj1(k_gte, value)))
         [] operator = LESS_THAN -> Return(Obj1(field, Obj1(k_lt, value)))
         [] operator = LESS_THAN_OR_EQUAL -> Return(Obj1(field, Obj1(k_lte, value)))
         [] operator \in {LIKE, CONTAINS} ->
                Return(Obj1(field, Obj2(k_regex, value, k_options, i)))
         [] operator = STARTS_WITH ->
                Return(Obj1(field, Obj2(k_regex, Str(<<"^">> \o ToString(value)), k_options, i)))
         [] operator = ENDS_WITH ->
                Return(Obj1(field, Obj2(k_regex, Str(ToString(value) \o <<"$">>), k_options, i)))
         [] operator = IN_ -> Return(Obj1(field, Obj1(k_in, value)))
         [] operator = NOT_IN -> Return(Obj1(field, Obj1(k_nin, value)))
         [] operator = BETWEEN -> mongoBetween(field, value)
         [] operator = IS_NULL -> Return(Obj1(field, Null))
         [] operator = IS_NOT_NULL -> Return(Obj1(field, Obj1(k_ne, Null)))
         [] OTHER -> Return(Obj1(field, value))

(* static toMongoQuery(filters?, logicalOperator = AND): filters.map stops
   at the first condition whose translation throws. *)
toMongoQuery(filters, logicalOperator) ==
    IF Falsy(filters) \/ Len(filters.a) = 0 THEN Return(EmptyObject)
    ELSE LET parsed == [i \in DOMAIN filters.a |-> parseMongoFilterCondition(filters.a[i])]
             conditions == [i \in DOMAIN parsed |-> parsed[i].value]
             lo == IF logicalOperator = Undefined THEN AND ELSE logicalOperator
         IN IF \E i \in DOMAIN parsed : parsed[i].kind = "throw"
            THEN parsed[CHOOSE i \in DOMAIN parsed :
                          /\ parsed[i].kind = "throw"
                          /\ \A j \in 1..(i - 1) : parsed[j].kind = "return"]
            ELSE IF lo = OR THEN Return(Obj1(k_or, Arr(conditions)))
            ELSE Return(Obj1(k_and, Arr(conditions)))

(* buildSort comparing the direction as given, without toUpperCase. *)
buildSortCaseSensitive(sortBy, sortDirection) ==
    IF Falsy(sortBy) THEN Return(EmptyObject)
    ELSE LET direction == IF sortDirection = Str(<<"D", "E", "S", "C">>) THEN -1 ELSE 1
         IN Return(Obj1(sortBy.s, Num(direction)))

(* static buildSort(sortBy?, sortDirection?) *)
buildSort(sortBy, sortDirection) ==
    IF Falsy(sortBy) THEN Return(EmptyObject)
    ELSE LET upper == IF sortDirection.t \in {"undefined", "null"} THEN Undefined
                      ELSE Str(toUpperCase(sortDirection.s))
             direction == IF upper = Str(<<"D", "E", "S", "C">>) THEN -1 ELSE 1
         IN Return(Obj1(sortBy.s, Num(direction)))

----------------------------------------------------------------------------
(* The arguments of the calls, drawn from bounded sets *)

MaxFilters == 3

age == <<"a", "g", "e">>
name == <<"n", "a", "m", "e">>
createdAt == <<"c", "r", "e", "a", "t", "e", "d", "A", "t">>
jo == <<"j", "o">>

Fields == {age, name}

(* Two operator codes outside the enum: a misspelt case and a foreign code. *)
UnknownOperators == {<<"E", "Q">>, <<"r", "e", "g", "e", "x">>}
Operators == FilterOperator \cup UnknownOperators

Values ==
    {Undefined, Null, Num(18), Str(jo), Str(<<"%">> \o jo \o <<"%">>),
     Arr(<<Num(18), Num(65)>>), Arr(<<Str(<<"a">>)>>)}

Conditions == [field : Fields, operator : Operators, value : Values]

(* Lists of two and more conditions draw from one operator of each fragment
   shape and from an absent and a range value. *)
CoreConditions ==
    [field : Fields,
     operator : {EQUALS, GREATER_THAN_OR_EQUAL, BETWEEN},
     value : {Undefined, Arr(<<Num(18), Num(65)>>)}]

RECURSIVE SeqsOf(_, _)
SeqsOf(S, n) ==
    IF n = 0 THEN {<<>>}
    ELSE {Append(q, c) : q \in SeqsOf(S, n - 1), c \in S}

FilterLists ==
    {<<>>} \cup {<<c>> : c \in Conditions}
           \cup UNION {SeqsOf(CoreConditions, n) : n \in 2..MaxFilters}

FilterArgs == {Undefined, Null} \cup {Arr(l) : l \in FilterLists}
LogicalArgs == {Undefined, AND, OR}

SortByArgs == {Undefined, Null, Str(<<>>), Str(createdAt), Str(name)}
SortDirectionArgs ==
    {Undefined, Null, Str(<<>>),
     Str(<<"D", "E", "S", "C">>), Str(<<"d", "e", "s", "c">>), Str(<<"D", "e", "s", "c">>),
     Str(<<"A", "S", "C">>), Str(<<"a", "s", "c">>),
     Str(<<"D", "E", "S", "C", "E", "N", "D", "I", "N", "G">>)}

OpNames == {"toTypeORMWhere", "toMongoQuery", "buildSort"}
NotCalled == [kind |-> "none", value |-> Undefined]

----------------------------------------------------------------------------
(* State: the caller's arguments, the last call and what it returned, and
   what each operation returned when it was last called. *)

VARIABLES filters, logicalOperator, sortBy, sortDirection, op, result, returned

(* State of the pagination model: the parameters a request supplied, the
   PaginationDto made from them, the verdict of its validation, and the
   arguments createPaginationMeta is called with. *)
VARIABLES request, dto, valid, args

paginationVars == <<request, dto, valid>>

(* State of the QueryBuilder model: the parameter bag (this.params) of every
   builder made so far, the arrays the bags and the caller refer to, the
   target and arguments of the last call, the bags and arrays as they were
   before it, and the number of calls made.  Three history variables record
   what the caller did: for every builder the value most recently given for
   each key (by the base parameters or by a call), the conditions given to
   its filter() calls, and whether it was made without base parameters and
   has received no call but filter() and build(). *)
VARIABLES builders, heap, call, before, ncalls, latest, pushed, fresh

builderVars == <<builders, heap, call, before, ncalls, latest, pushed, fresh>>

(* State of the ApiClient model: the Authorization entry of the axios
   instance's default headers, the last request (the header it carried and
   what axios made of it), and, as history, the configuration and the last
   authentication call. *)
VARIABLES api, exchange, authCall

apiVars == <<api, exchange, authCall>>

(* State of the Apollo client model: the configuration createApolloClient
   closed over, the client object, and the context of the last operation. *)
VARIABLES apollo, operation

apolloVars == <<apollo, operation>>

(* State of the SocketClient model: the wrapper's isConnected flag, the
   socket of socket.io-client (its auth option, its connection state and the
   token its connection was made with), and, as history, whether the caller
   has asked for the connection to be closed since it last asked for one,
   and whether the flag was set when the last call was made. *)
VARIABLES isConnected, socket, closed, wasConnected

socketVars == <<isConnected, socket, closed, wasConnected>>

(* State of the useSocketEmit model: the state of the hook (isLoading, error,
   data) and the emits started through it. *)
VARIABLES hook, emits

hookVars == <<hook, emits>>

clientVars == <<apiVars, apolloVars, socketVars, hookVars>>

vars == <<filters, logicalOperator, sortBy, sortDirection, op, result, returned,
          request, dto, valid, args,
          builders, heap, call, before, ncalls, latest, pushed, fresh,
          api, exchange, authCall, apollo, operation,
          isConnected, socket, closed, wasConnected, hook, emits>>

NoApi == api = Undefined /\ exchange = Undefined /\ authCall = Undefined
NoApollo == apollo = Undefined /\ operation = Undefined
NoSocket ==
    isConnected = FALSE /\ socket = Undefined /\ closed = FALSE /\ wasConnected = FALSE
NoHook == hook = Undefined /\ emits = <<>>

(* No transport wrapper exists while the core is exercised. *)
NoClients == NoApi /\ NoApollo /\ NoSocket /\ NoHook

(* No PaginationDto exists while the translator is exercised. *)
NoPagination == request = Undefined /\ dto = Undefined /\ valid = "unchecked"

(* No QueryBuilder exists while the translator or the pagination is
   exercised. *)
NoBuilders ==
    /\ builders = <<>>
    /\ heap = <<>>
    /\ call = Undefined
    /\ before = Undefined
    /\ ncalls = 0
    /\ latest = <<>>
    /\ pushed = <<>>
    /\ fresh = <<>>

Init ==
    /\ \/ /\ filters \in FilterArgs
          /\ logicalOperator \in LogicalArgs
          /\ sortBy = Undefined
          /\ sortDirection = Undefined
       \/ /\ filters = Undefined
          /\ logicalOperator = Undefined
          /\ sortBy \in SortByArgs
          /\ sortDirection \in SortDirectionArgs
    /\ op = "none"
    /\ result = NotCalled
    /\ returned = [o \in OpNames |-> NotCalled]
    /\ NoPagination
    /\ args = Undefined
    /\ NoBuilders
    /\ NoClients

(* QueryParser.toTypeORMWhere(filters, logicalOperator): map, reduce and
   spread build new values, the arguments are only read. *)
ToTypeORMWhere ==
    /\ result' = toTypeORMWhere(filters, logicalOperator)
    /\ op' = "toTypeORMWhere"
    /\ returned' = [returned EXCEPT !["toTypeORMWhere"] = result']
    /\ UNCHANGED <<filters, logicalOperator, sortBy, sortDirection>>
    /\ UNCHANGED <<paginationVars, args, builderVars, clientVars>>

(* toMongoQuery consuming its argument with filters.shift() while it
   translates. *)
ToMongoQueryShift ==
    /\ result' = toMongoQuery(filters, logicalOperator)
    /\ op' = "toMongoQuery"
    /\ returned' = [returned EXCEPT !["toMongoQuery"] = result']
    /\ filters' = IF Falsy(filters) THEN filters ELSE Arr(<<>>)
    /\ UNCHANGED <<logicalOperator, sortBy, sortDirection>>
    /\ UNCHANGED <<paginationVars, args, builderVars, clientVars>>

(* QueryParser.toMongoQuery(filters, logicalOperator) *)
ToMongoQuery ==
    /\ result' = toMongoQuery(filters, logicalOperator)
    /\ op' = "toMongoQuery"
    /\ returned' = [returned EXCEPT !["toMongoQuery"] = result']
    /\ UNCHANGED <<filters, logicalOperator, sortBy, sortDirection>>
    /\ UNCHANGED <<paginationVars, args, builderVars, clientVars>>

(* QueryParser.buildSort(sortBy, sortDirection) *)
BuildSort ==
    /\ result' = buildSort(sortBy, sortDirection)
    /\ op' = "buildSort"
    /\ returned' = [returned EXCEPT !["buildSort"] = result']
    /\ UNCHANGED <<filters, logicalOperator, sortBy, sortDirection>>
    /\ UNCHANGED <<paginationVars, args, builderVars, clientVars>>

Next == ToTypeORMWhere \/ ToMongoQuery \/ BuildSort

Spec == Init /\ [][Next]_vars

----------------------------------------------------------------------------
(* Properties of the translator *)

NonEmpty == filters.t = "array" /\ Len(filters.a) > 0
IsAnd == logicalOperator \in {Undefined, AND}
FieldsOf(l) == {l[i].field : i \in DOMAIN l}
LastNaming(l, f) ==
    CHOOSE i \in DOMAIN l : l[i].field = f /\ \A j \in DOMAIN l : l[j].field = f => j <= i

(* C1: with AND or no logical operator, toTypeORMWhere returns one object
   whose keys are the fields the conditions name, and the value under a field
   is the fragment of the last condition in the list that names it. *)
C1_AndMergesLastWins ==
    (op = "toTypeORMWhere" /\ NonEmpty /\ IsAnd) =>
        /\ result.kind = "return"
        /\ result.value.t = "object"
        /\ DOMAIN result.value.o = FieldsOf(filters.a)
        /\ \A f \in FieldsOf(filters.a) :
              result.value.o[f] =
                  parseFilterCondition(filters.a[LastNaming(filters.a, f)]).o[f]

(* An AND call on three conditions: the first and the last name one field
   with different fragments, the middle one names another field. *)
C1_Witness ==
    /\ op = "toTypeORMWhere" /\ NonEmpty /\ IsAnd
    /\ Len(filters.a) = 3
    /\ filters.a[1].field = filters.a[3].field
    /\ filters.a[2].field # filters.a[1].field
    /\ parseFilterCondition(filters.a[1]) # parseFilterCondition(filters.a[3])
    /\ result.value.o[filters.a[1].field]
          = parseFilterCondition(filters.a[3]).o[filters.a[1].field]

(* C2: with OR and a non-empty list, toTypeORMWhere returns a list with one
   fragment per condition, in input order, the i-th being the translation of
   the i-th condition alone. *)
C2_OrListsEveryFragment ==
    (op = "toTypeORMWhere" /\ NonEmpty /\ logicalOperator = OR) =>
        /\ result.kind = "return"
        /\ result.value.t = "array"
        /\ Len(result.value.a) = Len(filters.a)
        /\ \A i \in DOMAIN filters.a :
              result.value.a[i] = parseFilterCondition(filters.a[i])

(* An OR call on conditions of which two name the same field. *)
C2_Witness ==
    /\ op = "toTypeORMWhere" /\ NonEmpty /\ logicalOperator = OR
    /\ \E i, j \in DOMAIN filters.a :
          /\ i < j
          /\ filters.a[i].field = filters.a[j].field
          /\ filters.a[i] # filters.a[j]
    /\ result.kind = "return"
    /\ Len(result.value.a) = Len(filters.a)

(* C3: with a non-empty list, toMongoQuery returns an object with the one key
   $and (AND or no logical operator) or $or (OR), holding one fragment per
   condition in input order. *)
C3_MongoContainer ==
    (op = "toMongoQuery" /\ NonEmpty) =>
        /\ result.kind = "return"
        /\ result.value.t = "object"
        /\ DOMAIN result.value.o = {IF logicalOperator = OR THEN k_or ELSE k_and}
        /\ LET list == result.value.o[IF logicalOperator = OR THEN k_or ELSE k_and]
           IN /\ list.t = "array"
              /\ Len(list.a) = Len(filters.a)
              /\ \A i \in DOMAIN filters.a :
                    Return(list.a[i]) = parseMongoFilterCondition(filters.a[i])

(* C4: both translators return the empty object for an absent or empty list,
   whatever the logical operator. *)
C4_EmptyGivesEmptyObject ==
    (op \in {"toTypeORMWhere", "toMongoQuery"} /\ ~NonEmpty) =>
        result = Return(EmptyObject)

(* An OR call of toTypeORMWhere on the empty list. *)
C4_Witness ==
    /\ op = "toTypeORMWhere"
    /\ filters = Arr(<<>>)
    /\ logicalOperator = OR
    /\ result = Return(EmptyObject)

MongoList == result.value.o[IF logicalOperator = OR THEN k_or ELSE k_and]

(* The relational operator table. *)
RelationalTable(c) ==
    LET f == c.field
        v == c.value
    IN CASE c.operator = EQUALS -> Obj1(f, v)
         [] c.operator \in {NOT_EQUALS, GREATER_THAN, GREATER_THAN_OR_EQUAL, LESS_THAN,
                            LESS_THAN_OR_EQUAL, IN_, NOT_IN, BETWEEN} ->
                Obj1(f, Obj1(<<"$">> \o c.operator, v))
         [] c.operator \in {LIKE, CONTAINS} ->
                Obj1(f, Obj1(k_like, Str(<<"%">> \o ToString(v) \o <<"%">>)))
         [] c.operator = STARTS_WITH -> Obj1(f, Obj1(k_like, Str(ToString(v) \o <<"%">>)))
         [] c.operator = ENDS_WITH -> Obj1(f, Obj1(k_like, Str(<<"%">> \o ToString(v))))
         [] c.operator = IS_NULL -> Obj1(f, Null)
         [] c.operator = IS_NOT_NULL -> Obj1(f, Obj1(k_ne, Null))

(* C5: the relational translation of a condition with an operator of the
   enum follows the operator table: eq gives {f: v}; ne, gt, gte, lt, lte,
   in, nin, between give {f: {$op: v}}; like and contains give '%v%',
   startsWith 'v%', endsWith '%v'; null gives {f: null} and notnull
   {f: {$ne: null}} whatever the value. *)
C5_RelationalTable ==
    (op = "toTypeORMWhere" /\ NonEmpty) =>
        /\ logicalOperator = OR =>
              \A i \in DOMAIN filters.a :
                  filters.a[i].operator \in FilterOperator =>
                      result.value.a[i] = RelationalTable(filters.a[i])
        /\ (IsAnd /\ Len(filters.a) = 1 /\ filters.a[1].operator \in FilterOperator) =>
              result.value = RelationalTable(filters.a[1])

(* endsWith 'jo' on name was translated to {name: {$like: '%jo'}}. *)
C5_Witness ==
    /\ op = "toTypeORMWhere"
    /\ filters = Arr(<<[field |-> name, operator |-> ENDS_WITH, value |-> Str(jo)]>>)
    /\ IsAnd
    /\ result = Return(Obj1(name, Obj1(k_like, Str(<<"%", "j", "o">>))))

(* The document operator table, for the conditions it covers: every
   operator of the enum, between with a value of two elements. *)
DocumentCovers(c) ==
    /\ c.operator \in FilterOperator
    /\ c.operator = BETWEEN => (c.value.t = "array" /\ Len(c.value.a) = 2)
DocumentTable(c) ==
    LET f == c.field
        v == c.value
        i == Str(<<"i">>)
    IN CASE c.operator = BETWEEN -> Obj1(f, Obj2(k_gte, v.a[1], k_lte, v.a[2]))
         [] c.operator \in {LIKE, CONTAINS} -> Obj1(f, Obj2(k_regex, v, k_options, i))
         [] c.operator = STARTS_WITH ->
                Obj1(f, Obj2(k_regex, Str(<<"^">> \o ToString(v)), k_options, i))
         [] c.operator = ENDS_WITH ->
                Obj1(f, Obj2(k_regex, Str(ToString(v) \o <<"$">>), k_options, i))
         [] OTHER -> parseFilterCondition(c)

(* C6: the document translation follows the operator table: between with
   [a, b] gives {f: {$gte: a, $lte: b}}; like and contains give a
   case-insensitive regex on v, startsWith on '^v', endsWith on 'v$'; every
   other operator of the enum gives the relational fragment. *)
C6_DocumentTable ==
    (op = "toMongoQuery" /\ NonEmpty /\ \A i \in DOMAIN filters.a : DocumentCovers(filters.a[i])) =>
        /\ result.kind = "return"
        /\ \A i \in DOMAIN filters.a : MongoList.a[i] = DocumentTable(filters.a[i])

(* between [18, 65] on age was translated to {age: {$gte: 18, $lte: 65}}. *)
C6_Witness ==
    /\ op = "toMongoQuery"
    /\ NonEmpty
    /\ \A i \in DOMAIN filters.a : DocumentCovers(filters.a[i])
    /\ \E i \in DOMAIN filters.a :
          /\ filters.a[i] = [field |-> age, operator |-> BETWEEN,
                             value |-> Arr(<<Num(18), Num(65)>>)]
          /\ MongoList.a[i] = Obj1(age, Obj2(k_gte, Num(18), k_lte, Num(65)))

(* C7: a condition whose operator is not in the enum is translated by both
   translators to {f: v}, the fragment of an eq condition on the same field
   and value. *)
C7_UnknownOperatorIsEquality ==
    LET Unknown(c) == c.operator \notin FilterOperator
        AsEq(c) == [c EXCEPT !.operator = EQUALS]
    IN /\ (op = "toTypeORMWhere" /\ NonEmpty /\ logicalOperator = OR) =>
             \A i \in DOMAIN filters.a :
                 Unknown(filters.a[i]) =>
                     /\ result.value.a[i] = Obj1(filters.a[i].field, filters.a[i].value)
                     /\ result.value.a[i] = parseFilterCondition(AsEq(filters.a[i]))
       /\ (op = "toTypeORMWhere" /\ NonEmpty /\ IsAnd /\ Len(filters.a) = 1
             /\ Unknown(filters.a[1])) =>
             result.value = Obj1(filters.a[1].field, filters.a[1].value)
       /\ (op = "toMongoQuery" /\ NonEmpty /\ result.kind = "return") =>
             \A i \in DOMAIN filters.a :
                 Unknown(filters.a[i]) =>
                     /\ MongoList.a[i] = Obj1(filters.a[i].field, filters.a[i].value)
                     /\ Return(MongoList.a[i]) = parseMongoFilterCondition(AsEq(filters.a[i]))

(* A condition with the code 'EQ' was translated by toTypeORMWhere. *)
C7_Witness ==
    /\ op = "toTypeORMWhere"
    /\ filters = Arr(<<[field |-> name, operator |-> <<"E", "Q">>, value |-> Str(jo)]>>)
    /\ IsAnd
    /\ result = Return(Obj1(name, Str(jo)))

(* C8: toTypeORMWhere and toMongoQuery never raise, whatever the operators
   and values of the conditions. *)
C8_NeverRaises ==
    op \in {"toTypeORMWhere", "toMongoQuery"} => result.kind = "return"

(* The direction equals 'DESC' when letter case is ignored. *)
IsDescIgnoringCase(d) ==
    /\ d.t = "string"
    /\ Len(d.s) = 4
    /\ d.s[1] \in {"D", "d"} /\ d.s[2] \in {"E", "e"}
    /\ d.s[3] \in {"S", "s"} /\ d.s[4] \in {"C", "c"}
SortOrder == Return(Obj1(sortBy.s, Num(IF IsDescIgnoringCase(sortDirection) THEN -1 ELSE 1)))

(* C9 as stated: buildSort returns the empty object when sortBy is absent,
   and otherwise the map {sortBy: -1} when the direction is 'DESC' in any
   letter case and {sortBy: 1} for every other direction. *)
C9_SortOrderUnlessAbsent ==
    op = "buildSort" =>
        result = IF sortBy \in {Undefined, Null} THEN Return(EmptyObject) ELSE SortOrder

(* C9 amended: buildSort returns the empty object when sortBy is absent or
   the empty string, and otherwise the map {sortBy: -1} when the direction is
   'DESC' in any letter case and {sortBy: 1} for every other direction. *)
C9_SortOrderUnlessAbsentOrEmpty ==
    op = "buildSort" =>
        result = IF sortBy \in {Undefined, Null, Str(<<>>)} THEN Return(EmptyObject)
                 ELSE SortOrder

(* buildSort('createdAt', 'desc') returned {createdAt: -1}. *)
C9_Witness ==
    /\ op = "buildSort"
    /\ sortBy = Str(createdAt)
    /\ sortDirection = Str(<<"d", "e", "s", "c">>)
    /\ result = Return(Obj1(createdAt, Num(-1)))

(* C10: a call of toTypeORMWhere, toMongoQuery or buildSort leaves its
   arguments as they were, and returns what the same operation returned when
   it was called before on these arguments. *)
C10_PureAndDeterministic ==
    [][/\ filters' = filters
       /\ logicalOperator' = logicalOperator
       /\ sortBy' = sortBy
       /\ sortDirection' = sortDirection
       /\ returned[op'] # NotCalled => result' = returned[op']]_vars

(* toMongoQuery was called a second time, after another operation, on a
   list of conditions. *)
C10_Witness ==
    /\ op = "toMongoQuery"
    /\ NonEmpty
    /\ returned["toTypeORMWhere"] # NotCalled
    /\ returned["toMongoQuery"] = result

----------------------------------------------------------------------------
(* Pagination: class PaginationDto and createPaginationMeta *)

Bool(b) == [t |-> "boolean", b |-> b]

k_page == <<"p", "a", "g", "e">>
k_limit == <<"l", "i", "m", "i", "t">>
k_skip == <<"s", "k", "i", "p">>
k_cursor == <<"c", "u", "r", "s", "o", "r">>
k_total == <<"t", "o", "t", "a", "l">>
k_totalPages == <<"t", "o", "t", "a", "l", "P", "a", "g", "e", "s">>
k_hasNext == <<"h", "a", "s", "N", "e", "x", "t">>
k_hasPrevious == <<"h", "a", "s", "P", "r", "e", "v", "i", "o", "u", "s">>

(* page?: number = 1 and limit?: number = 10; @Min(1) @Max(100) on limit,
   @Min(1) on page, @Min(0) on skip. *)
DefaultPage == 1
DefaultLimit == 10
MinPage == 1
MinLimit == 1
MaxLimit == 100
MinSkip == 0

(* new PaginationDto(): the field initialisers. *)
NewPaginationDto ==
    [page |-> Num(DefaultPage), limit |-> Num(DefaultLimit),
     skip |-> Undefined, cursor |-> Undefined]

(* The instance made from the parameters of a request: the initialisers,
   then every supplied parameter assigned to its field. *)
FromRequest(req) ==
    [f \in DOMAIN NewPaginationDto |->
        IF f \in DOMAIN req THEN req[f] ELSE NewPaginationDto[f]]

(* @IsOptional() @IsInt() @Min(min) [@Max(max)]: undefined and null pass,
   any other value must be an integer in range (max < 0: no @Max). *)
IsValidInt(v, min, max) ==
    \/ v.t \in {"undefined", "null"}
    \/ v.t = "number" /\ v.n >= min /\ (max < 0 \/ v.n <= max)

(* The decorators of PaginationDto without @Max(100) on limit. *)
validateNoMax(d) ==
    /\ IsValidInt(d.page, MinPage, -1)
    /\ IsValidInt(d.limit, MinLimit, -1)
    /\ IsValidInt(d.skip, MinSkip, -1)

(* class-validator over the decorators of PaginationDto. *)
validate(d) ==
    /\ IsValidInt(d.page, MinPage, -1)
    /\ IsValidInt(d.limit, MinLimit, MaxLimit)
    /\ IsValidInt(d.skip, MinSkip, -1)

(* ToNumber on the operands of getSkip's arithmetic: null is 0. *)
ToNumber(v) == IF v.t = "null" THEN 0 ELSE v.n

(* getSkip testing the truthiness of skip, if (this.skip). *)
getSkipTruthy(d) ==
    IF ~Falsy(d.skip) THEN Return(d.skip)
    ELSE Return(Num((ToNumber(d.page) - 1) * ToNumber(d.limit)))

(* PaginationDto.getSkip() *)
getSkip(d) ==
    IF d.skip # Undefined THEN Return(d.skip)
    ELSE Return(Num((ToNumber(d.page) - 1) * ToNumber(d.limit)))

(* PaginationDto.getLimit() *)
getLimit(d) == Return(d.limit)

(* Math.floor(total / limit) in the place of Math.ceil. *)
Floor(total, limit) == total \div limit

(* Math.ceil(total / limit) on a total >= 0 and a limit > 0. *)
Ceil(total, limit) ==
    IF total % limit = 0 THEN total \div limit ELSE (total \div limit) + 1

(* createPaginationMeta with hasNext: page <= totalPages. *)
createPaginationMetaNextOnLast(page, limit, total) ==
    LET totalPages == Ceil(total, limit)
    IN Return(Obj([k \in {k_page, k_limit, k_total, k_totalPages, k_hasNext, k_hasPrevious} |->
            CASE k = k_page -> Num(page)
              [] k = k_limit -> Num(limit)
              [] k = k_total -> Num(total)
              [] k = k_totalPages -> Num(totalPages)
              [] k = k_hasNext -> Bool(page <= totalPages)
              [] k = k_hasPrevious -> Bool(page > 1)]))

(* createPaginationMeta(page, limit, total) *)
createPaginationMeta(page, limit, total) ==
    LET totalPages == Ceil(total, limit)
    IN Return(Obj([k \in {k_page, k_limit, k_total, k_totalPages, k_hasNext, k_hasPrevious} |->
            CASE k = k_page -> Num(page)
              [] k = k_limit -> Num(limit)
              [] k = k_total -> Num(total)
              [] k = k_totalPages -> Num(totalPages)
              [] k = k_hasNext -> Bool(page < totalPages)
              [] k = k_hasPrevious -> Bool(page > 1)]))

(* The arguments drawn for createPaginationMeta and the parameters drawn for
   a request. *)
MaxPage == 4
MaxPerPage == 10
MaxTotal == 25

RequestPages == {Null, Num(0), Num(1), Num(3)}
RequestLimits == {Null, Num(0), Num(1), Num(10), Num(MaxLimit), Num(MaxLimit + 1), Num(5 * MaxLimit)}
RequestSkips == {Null, Num(-1), Num(0), Num(5)}

(* A request supplies any subset of page, limit and skip. *)
Requests ==
    UNION {[S -> RequestPages \cup RequestLimits \cup RequestSkips] :
             S \in SUBSET {"page", "limit", "skip"}}
ParameterValues(f) ==
    CASE f = "page" -> RequestPages
      [] f = "limit" -> RequestLimits
      [] f = "skip" -> RequestSkips

MetaArgs == [page : 1..MaxPage, limit : 1..MaxPerPage, total : 0..MaxTotal]

PaginationInit ==
    /\ \/ /\ request \in {r \in Requests : \A f \in DOMAIN r : r[f] \in ParameterValues(f)}
          /\ args = Undefined
       \/ /\ request = <<>>
          /\ args \in MetaArgs
       \/ /\ args \in MetaArgs
          /\ request = [page |-> Num(args.page), limit |-> Num(args.limit)]
    /\ dto = FromRequest(request)
    /\ valid = "unchecked"
    /\ op = "none"
    /\ result = NotCalled
    /\ filters = Undefined
    /\ logicalOperator = Undefined
    /\ sortBy = Undefined
    /\ sortDirection = Undefined
    /\ returned = [o \in OpNames |-> NotCalled]
    /\ NoBuilders
    /\ NoClients

parserVars == <<filters, logicalOperator, sortBy, sortDirection, returned>>

(* The validation pipe runs over the DTO. *)
Validate ==
    /\ valid' = IF validate(dto) THEN "valid" ELSE "invalid"
    /\ op' = "validate"
    /\ result' = Return(Bool(validate(dto)))
    /\ UNCHANGED <<request, dto, args, parserVars, builderVars, clientVars>>

GetSkip ==
    /\ result' = getSkip(dto)
    /\ op' = "getSkip"
    /\ UNCHANGED <<request, dto, valid, args, parserVars, builderVars, clientVars>>

GetLimit ==
    /\ result' = getLimit(dto)
    /\ op' = "getLimit"
    /\ UNCHANGED <<request, dto, valid, args, parserVars, builderVars, clientVars>>

CreatePaginationMeta ==
    /\ args # Undefined
    /\ result' = createPaginationMeta(args.page, args.limit, args.total)
    /\ op' = "createPaginationMeta"
    /\ UNCHANGED <<request, dto, valid, args, parserVars, builderVars, clientVars>>

PaginationNext == Validate \/ GetSkip \/ GetLimit \/ CreatePaginationMeta

PaginationSpec == PaginationInit /\ [][PaginationNext]_vars

----------------------------------------------------------------------------
(* Properties of the pagination model *)

Supplied(f) == f \in DOMAIN request
Meta == result.value.o

(* C11: createPaginationMeta(page, limit, total) with page >= 1, limit > 0,
   total >= 0 returns page, limit and total unchanged, totalPages the least
   number of pages of limit items that hold total items, hasNext =
   (page < totalPages) and hasPrevious = (page > 1); total = 0 gives
   totalPages = 0 and hasNext = false. *)
C11_PaginationMeta ==
    op = "createPaginationMeta" =>
        /\ result.kind = "return"
        /\ DOMAIN Meta = {k_page, k_limit, k_total, k_totalPages, k_hasNext, k_hasPrevious}
        /\ Meta[k_page] = Num(args.page)
        /\ Meta[k_limit] = Num(args.limit)
        /\ Meta[k_total] = Num(args.total)
        /\ Meta[k_totalPages].t = "number"
        /\ LET n == Meta[k_totalPages].n
           IN /\ n >= 0
              /\ n * args.limit >= args.total
              /\ (n - 1) * args.limit < args.total
              /\ Meta[k_hasNext] = Bool(args.page < n)
              /\ args.total = 0 => (n = 0 /\ Meta[k_hasNext] = Bool(FALSE))
        /\ Meta[k_hasPrevious] = Bool(args.page > 1)

(* createPaginationMeta(2, 10, 25) returned totalPages 3, hasNext and
   hasPrevious true. *)
C11_Witness ==
    /\ op = "createPaginationMeta"
    /\ args = [page |-> 2, limit |-> 10, total |-> 25]
    /\ Meta[k_totalPages] = Num(3)
    /\ Meta[k_hasNext] = Bool(TRUE)
    /\ Meta[k_hasPrevious] = Bool(TRUE)

(* C12: getSkip returns the skip parameter whenever one was supplied, an
   explicit 0 included, whatever page and limit are, and (page - 1) * limit
   otherwise, with the defaults 1 and 10 for a page or limit not supplied. *)
C12_EffectiveSkip ==
    op = "getSkip" =>
        IF Supplied("skip") THEN result = Return(request.skip)
        ELSE LET page == IF Supplied("page") THEN request.page ELSE Num(1)
                 limit == IF Supplied("limit") THEN request.limit ELSE Num(10)
             IN (page.t = "number" /\ limit.t = "number") =>
                    result = Return(Num((page.n - 1) * limit.n))

(* getSkip returned 0 for skip = 0 supplied with page = 3 and limit = 10. *)
C12_Witness ==
    /\ op = "getSkip"
    /\ request = [page |-> Num(3), limit |-> Num(10), skip |-> Num(0)]
    /\ result = Return(Num(0))

(* C13 as stated: getLimit returns a positive integer of at most 100: 10
   when no limit was supplied, 100 when the supplied limit is above 100. *)
C13_LimitCappedAt100 ==
    op = "getLimit" =>
        /\ result.kind = "return"
        /\ result.value.t = "number"
        /\ result.value.n \in 1..100
        /\ ~Supplied("limit") => result.value.n = 10
        /\ (Supplied("limit") /\ request.limit.t = "number" /\ request.limit.n > 100) =>
              result.value.n = 100

(* C13 amended: getLimit returns the limit as it is, 10 when no limit was
   supplied and the supplied limit otherwise; a supplied limit above 100 is
   not capped but fails validation; on a DTO that passed validation the limit
   is a positive integer of at most 100, or null when null was supplied. *)
C13_LimitValidatedNotCapped ==
    op = "getLimit" =>
        /\ result = Return(IF Supplied("limit") THEN request.limit ELSE Num(10))
        /\ (Supplied("limit") /\ request.limit.t = "number" /\ request.limit.n > 100) =>
              valid # "valid"
        /\ valid = "valid" =>
              \/ result.value = Null
              \/ result.value.t = "number" /\ result.value.n \in 1..100

(* A request with limit = 101 failed validation and getLimit returned 101. *)
C13_Witness ==
    /\ op = "getLimit"
    /\ Supplied("limit")
    /\ request.limit = Num(101)
    /\ valid = "invalid"
    /\ result = Return(Num(101))

----------------------------------------------------------------------------
(* QueryBuilder: the fluent accumulator of query parameters *)

(* A reference to an array: bags that hold the same reference share the
   array.  this, the builder a setter returns. *)
Ref(r) == [t |-> "ref", r |-> r]
This(b) == [t |-> "builder", b |-> b]

k_sortBy == <<"s", "o", "r", "t", "B", "y">>
k_sortDirection == <<"s", "o", "r", "t", "D", "i", "r", "e", "c", "t", "i", "o", "n">>
k_search == <<"s", "e", "a", "r", "c", "h">>
k_filters == <<"f", "i", "l", "t", "e", "r", "s">>
k_logicalOperator ==
    <<"l", "o", "g", "i", "c", "a", "l", "O", "p", "e", "r", "a", "t", "o", "r">>
k_tenant == <<"t", "e", "n", "a", "n", "t">>

(* enum SortDirection *)
ASC == Str(<<"A", "S", "C">>)
DESC == Str(<<"D", "E", "S", "C">>)

(* this.params[key], undefined when the bag has no such key. *)
Get(params, key) == IF key \in DOMAIN params THEN params[key] ELSE Undefined

(* this.params[key] = value *)
Assign(params, key, value) ==
    [k \in DOMAIN params \cup {key} |-> IF k = key THEN value ELSE params[k]]

(* constructor(baseParams = {}): this.params = { ...baseParams }, a new bag
   with the keys and the values of baseParams; a value that is an array is
   the same array. *)
QueryBuilder(baseParams) == Spread(EmptyObject, Obj(baseParams)).o

(* paginate starting the pagination anew: skip and cursor are deleted. *)
paginateOnly(params, page, limit) ==
    [k \in (DOMAIN params \ {k_skip, k_cursor}) \cup {k_page, k_limit} |->
        IF k = k_page THEN page ELSE IF k = k_limit THEN limit ELSE params[k]]

(* paginate(page, limit) *)
paginate(params, page, limit) ==
    Assign(Assign(params, k_page, page), k_limit, limit)

(* skip(skip, limit) *)
skip(params, skip_, limit) ==
    Assign(Assign(params, k_skip, skip_), k_limit, limit)

(* cursor assigning limit also when no limit was given. *)
cursorAlwaysLimit(params, cursor_, limit) ==
    Assign(Assign(params, k_cursor, cursor_), k_limit, limit)

(* cursor(cursor, limit?) *)
cursor(params, cursor_, limit) ==
    LET p == Assign(params, k_cursor, cursor_)
    IN IF limit # Undefined THEN Assign(p, k_limit, limit) ELSE p

(* sort assigning sortDirection only when a direction was given. *)
sortKeepsDirection(params, sortBy_, sortDirection_) ==
    LET p == Assign(params, k_sortBy, sortBy_)
    IN IF sortDirection_ # Undefined THEN Assign(p, k_sortDirection, sortDirection_) ELSE p

(* sort(sortBy, sortDirection = SortDirection.ASC): the default stands in
   for an omitted (undefined) direction. *)
sort(params, sortBy_, sortDirection_) ==
    LET direction == IF sortDirection_ = Undefined THEN ASC ELSE sortDirection_
    IN Assign(Assign(params, k_sortBy, sortBy_), k_sortDirection, direction)

(* search(search) *)
search(params, search_) == Assign(params, k_search, search_)

(* filter skipping a condition the list already holds. *)
filterDistinct(h, params, field, operator, value) ==
    LET absent == Falsy(Get(params, k_filters))
        h1 == IF absent THEN Append(h, <<>>) ELSE h
        p1 == IF absent THEN Assign(params, k_filters, Ref(Len(h1))) ELSE params
        r == p1[k_filters].r
        condition == [field |-> field, operator |-> operator, value |-> value]
    IN [heap |-> IF \E i \in DOMAIN h1[r] : h1[r][i] = condition THEN h1
                 ELSE [h1 EXCEPT ![r] = Append(@, condition)],
        params |-> p1]

(* filter(field, operator, value?): a new array when the bag has no (truthy)
   filters, then push({ field, operator, value }) on the array the bag refers
   to.  Gives the arrays and the bag after the call. *)
filter(h, params, field, operator, value) ==
    LET absent == Falsy(Get(params, k_filters))
        h1 == IF absent THEN Append(h, <<>>) ELSE h
        p1 == IF absent THEN Assign(params, k_filters, Ref(Len(h1))) ELSE params
        r == p1[k_filters].r
        condition == [field |-> field, operator |-> operator, value |-> value]
    IN [heap |-> [h1 EXCEPT ![r] = Append(@, condition)], params |-> p1]

(* filters(list) keeping a filter list the bag already has,
   this.params.filters = this.params.filters || filters. *)
setFiltersKeep(params, list) ==
    IF Falsy(Get(params, k_filters)) THEN Assign(params, k_filters, list) ELSE params

(* filters(filters): this.params.filters = filters, the caller's array
   itself. *)
setFilters(params, list) == Assign(params, k_filters, list)

(* logicalOperator(operator) *)
setLogicalOperator(params, operator) == Assign(params, k_logicalOperator, operator)

(* param(key, value) *)
param(params, key, value) == Assign(params, key, value)

(* build filling in the defaults of page and limit. *)
buildWithDefaults(params) ==
    Return(Obj([k \in DOMAIN params \cup {k_page, k_limit} |->
        IF k \in DOMAIN params THEN params[k]
        ELSE IF k = k_page THEN Num(DefaultPage) ELSE Num(DefaultLimit)]))

(* build(): return this.params *)
build(params) == Return(Obj(params))

(* clone(): new QueryBuilder({ ...this.params }); gives the bag of the new
   builder. *)
clone(params) == QueryBuilder(Spread(EmptyObject, Obj(params)).o)

(* The bag with every array in the place of its reference. *)
Deref(h, params) ==
    [k \in DOMAIN params |->
        IF params[k].t = "ref" THEN Arr(h[params[k].r]) ELSE params[k]]

(* The calls drawn: at most MaxCalls calls are made in all. *)
MaxCalls == 3

condA == [field |-> <<"a">>, operator |-> EQUALS, value |-> Num(1)]
condB == [field |-> <<"b">>, operator |-> EQUALS, value |-> Num(2)]
BuilderConditions == {condA, condB}

(* The condition lists the caller owns, and the references to them. *)
CallerLists == << <<>>, <<condB, condA>> >>
ListArgs == {Ref(i) : i \in DOMAIN CallerLists}

(* new QueryBuilder(), as ApiClient.query() makes it, and builders over
   base parameters. *)
BaseParams == {<<>>, Obj1(k_limit, Num(5)).o, Obj1(k_filters, Ref(2)).o}

PageArgs == {Num(2)}
LimitArgs == {Num(20)}
SkipArgs == {Num(0)}
SkipLimitArgs == {Num(50)}
CursorArgs == {Str(<<"c", "1">>)}
CursorLimitArgs == {Undefined, Num(30)}
SortArgs == {<<Str(name), DESC>>, <<Str(createdAt), Undefined>>}
SearchArgs == {Str(jo)}
ParamKeys == {k_tenant, k_limit}
ParamValues == {Num(7)}

(* The values most recently given for each key, after a call that gives the
   values named. *)
Given(known, named) ==
    [k \in DOMAIN known \cup DOMAIN named |->
        IF k \in DOMAIN named THEN named[k] ELSE known[k]]

BuilderInit ==
    /\ \E baseParams \in BaseParams :
          /\ builders = <<QueryBuilder(baseParams)>>
          /\ latest = <<baseParams>>
          /\ fresh = <<DOMAIN baseParams = {}>>
    /\ heap = CallerLists
    /\ call = Undefined
    /\ before = Undefined
    /\ ncalls = 0
    /\ pushed = << <<>> >>
    /\ op = "none"
    /\ result = NotCalled
    /\ filters = Undefined
    /\ logicalOperator = Undefined
    /\ sortBy = Undefined
    /\ sortDirection = Undefined
    /\ returned = [o \in OpNames |-> NotCalled]
    /\ NoPagination
    /\ args = Undefined
    /\ NoClients

(* A call of a setter on builder t: the bag and the arrays after it, and
   return this. *)
Setter(t, method, a, params1, heap1, named) ==
    /\ ncalls < MaxCalls
    /\ builders' = [builders EXCEPT ![t] = params1]
    /\ heap' = heap1
    /\ op' = method
    /\ call' = [target |-> t, args |-> a]
    /\ before' = [builders |-> builders, heap |-> heap]
    /\ result' = Return(This(t))
    /\ ncalls' = ncalls + 1
    /\ latest' = [latest EXCEPT ![t] = Given(@, named)]
    /\ pushed' = IF method = "filter"
                 THEN [pushed EXCEPT ![t] =
                          Append(@, [field |-> a[1], operator |-> a[2], value |-> a[3]])]
                 ELSE pushed
    /\ fresh' = [fresh EXCEPT ![t] = @ /\ method = "filter"]
    /\ UNCHANGED <<parserVars, paginationVars, args, clientVars>>

Paginate(t) ==
    \E page \in PageArgs, limit \in LimitArgs :
        Setter(t, "paginate", <<page, limit>>, paginate(builders[t], page, limit), heap,
               Obj2(k_page, page, k_limit, limit).o)

Skip(t) ==
    \E skip_ \in SkipArgs, limit \in SkipLimitArgs :
        Setter(t, "skip", <<skip_, limit>>, skip(builders[t], skip_, limit), heap,
               Obj2(k_skip, skip_, k_limit, limit).o)

Cursor(t) ==
    \E cursor_ \in CursorArgs, limit \in CursorLimitArgs :
        Setter(t, "cursor", <<cursor_, limit>>, cursor(builders[t], cursor_, limit), heap,
               IF limit = Undefined THEN Obj1(k_cursor, cursor_).o
               ELSE Obj2(k_cursor, cursor_, k_limit, limit).o)

Sort(t) ==
    \E a \in SortArgs :
        Setter(t, "sort", a, sort(builders[t], a[1], a[2]), heap,
               Obj2(k_sortBy, a[1], k_sortDirection, IF a[2] = Undefined THEN ASC ELSE a[2]).o)

Search(t) ==
    \E search_ \in SearchArgs :
        Setter(t, "search", <<search_>>, search(builders[t], search_), heap,
               Obj1(k_search, search_).o)

(* The list of the builder stays the one it has, or is a new array when it
   has none. *)
Filter(t) ==
    \E c \in BuilderConditions :
        LET after == filter(heap, builders[t], c.field, c.operator, c.value)
            list == IF Falsy(Get(latest[t], k_filters)) THEN Ref(Len(heap) + 1)
                    ELSE latest[t][k_filters]
        IN Setter(t, "filter", <<c.field, c.operator, c.value>>, after.params, after.heap,
                  Obj1(k_filters, list).o)

Filters(t) ==
    \E list \in ListArgs :
        Setter(t, "filters", <<list>>, setFilters(builders[t], list), heap,
               Obj1(k_filters, list).o)

LogicalOperator(t) ==
    \E operator \in {OR} :
        Setter(t, "logicalOperator", <<operator>>, setLogicalOperator(builders[t], operator),
               heap, Obj1(k_logicalOperator, operator).o)

Param(t) ==
    \E key \in ParamKeys, value \in ParamValues :
        Setter(t, "param", <<Str(key), value>>, param(builders[t], key, value), heap,
               Obj1(key, value).o)

Build(t) ==
    /\ ncalls < MaxCalls
    /\ result' = build(builders[t])
    /\ op' = "build"
    /\ call' = [target |-> t, args |-> <<>>]
    /\ before' = [builders |-> builders, heap |-> heap]
    /\ ncalls' = ncalls + 1
    /\ UNCHANGED <<builders, heap, latest, pushed, fresh>>
    /\ UNCHANGED <<parserVars, paginationVars, args, clientVars>>

(* The base parameters of the new builder are the bag of builder t. *)
Clone(t) ==
    /\ ncalls < MaxCalls
    /\ builders' = Append(builders, clone(builders[t]))
    /\ result' = Return(This(Len(builders) + 1))
    /\ op' = "clone"
    /\ call' = [target |-> t, args |-> <<>>]
    /\ before' = [builders |-> builders, heap |-> heap]
    /\ ncalls' = ncalls + 1
    /\ latest' = Append(latest, builders[t])
    /\ pushed' = Append(pushed, <<>>)
    /\ fresh' = Append([fresh EXCEPT ![t] = FALSE], FALSE)
    /\ UNCHANGED heap
    /\ UNCHANGED <<parserVars, paginationVars, args, clientVars>>

BuilderNext ==
    \/ \E t \in DOMAIN builders : Paginate(t)
    \/ \E t \in DOMAIN builders : Skip(t)
    \/ \E t \in DOMAIN builders : Cursor(t)
    \/ \E t \in DOMAIN builders : Sort(t)
    \/ \E t \in DOMAIN builders : Search(t)
    \/ \E t \in DOMAIN builders : Filter(t)
    \/ \E t \in DOMAIN builders : Filters(t)
    \/ \E t \in DOMAIN builders : LogicalOperator(t)
    \/ \E t \in DOMAIN builders : Param(t)
    \/ \E t \in DOMAIN builders : Build(t)
    \/ \E t \in DOMAIN builders : Clone(t)

BuilderSpec == BuilderInit /\ [][BuilderNext]_vars

----------------------------------------------------------------------------
(* Properties of the QueryBuilder model *)

(* The builder the last call was made on. *)
Target == call.target

(* The conditions of the filter list of a bag, none when it has no list. *)
FilterList(h, params) ==
    IF Get(params, k_filters).t = "ref" THEN h[params[k_filters].r] ELSE <<>>

(* The condition a filter() call was given. *)
GivenCondition == [field |-> call.args[1], operator |-> call.args[2], value |-> call.args[3]]

(* C14: clone() gives an independent copy: a call on one builder leaves the
   bag of every other builder, the contents of its filter list included, as
   it was, so calls on a clone do not change the original and calls on the
   original do not change the clone. *)
C14_CloneIsIndependent ==
    op # "none" =>
        \A b \in DOMAIN before.builders :
            b # Target =>
                Deref(heap, builders[b]) = Deref(before.heap, before.builders[b])

(* C15: filter(field, operator, value) appends exactly the given condition
   to the end of the builder's filter list, the conditions already there
   staying as they were; on a builder made without base parameters that has
   received only filter() calls, the list, and the filters of what build()
   returns, are the conditions given, in call order, duplicates included. *)
C15_FilterAppendsOne ==
    /\ op = "filter" =>
          FilterList(heap, builders[Target]) =
              Append(FilterList(before.heap, before.builders[Target]), GivenCondition)
    /\ \A b \in DOMAIN builders :
          fresh[b] => FilterList(heap, builders[b]) = pushed[b]
    /\ (op = "build" /\ fresh[Target]) =>
          /\ FilterList(heap, result.value.o) = pushed[Target]
          /\ Len(FilterList(heap, result.value.o)) = Len(pushed[Target])

(* build() after filter('a','eq',1) twice on a new builder returned a list
   of two equal conditions. *)
C15_Witness ==
    /\ op = "build"
    /\ fresh[Target]
    /\ pushed[Target] = <<condA, condA>>
    /\ FilterList(heap, result.value.o) = <<condA, condA>>

(* C16: right after filters(list) the filters of the bag are the given list,
   holding the conditions the list held when it was given, in order, and
   none of the conditions the builder held before. *)
C16_FiltersReplaces ==
    op = "filters" =>
        /\ Get(builders[Target], k_filters) = call.args[1]
        /\ FilterList(heap, builders[Target]) = before.heap[call.args[1].r]

(* filters([]) on a builder that held the condition a eq 1 left it with no
   condition. *)
C16_Witness ==
    /\ op = "filters"
    /\ FilterList(before.heap, before.builders[Target]) = <<condA>>
    /\ call.args = <<Ref(1)>>
    /\ FilterList(heap, builders[Target]) = <<>>

PaginationKeys == {k_page, k_skip, k_cursor, k_limit}

(* The keys a paginate, skip or cursor call names. *)
NamedKeys ==
    CASE op = "paginate" -> {k_page, k_limit}
      [] op = "skip" -> {k_skip, k_limit}
      [] op = "cursor" -> IF call.args[2] = Undefined THEN {k_cursor} ELSE {k_cursor, k_limit}

(* C17: page, skip, cursor and limit each hold the value most recently given
   for them; a paginate, skip or cursor call leaves every one of them that
   it does not name in the bag with its value, so cursor(value) without a
   limit leaves limit unchanged and paginate after skip leaves skip. *)
C17_LastCallWins ==
    /\ \A b \in DOMAIN builders : \A k \in PaginationKeys \cap DOMAIN latest[b] :
          k \in DOMAIN builders[b] /\ builders[b][k] = latest[b][k]
    /\ op \in {"paginate", "skip", "cursor"} =>
          \A k \in PaginationKeys \ NamedKeys :
              /\ k \in DOMAIN builders[Target] <=> k \in DOMAIN before.builders[Target]
              /\ Get(builders[Target], k) = Get(before.builders[Target], k)

(* skip(0, 50), paginate(2, 20) and cursor('c1') left skip 0, page 2, limit
   20 and cursor 'c1'. *)
C17_Witness ==
    /\ op = "cursor"
    /\ call.args[2] = Undefined
    /\ builders[Target] =
          [k \in PaginationKeys |->
              CASE k = k_skip -> Num(0)
                [] k = k_page -> Num(2)
                [] k = k_limit -> Num(20)
                [] k = k_cursor -> Str(<<"c", "1">>)]

(* C18: sort(field, direction) sets sortBy to the field and sortDirection to
   the direction, or to ASC when the direction is omitted, whatever the bag
   held before. *)
C18_SortSetsBoth ==
    op = "sort" =>
        /\ Get(builders[Target], k_sortBy) = call.args[1]
        /\ Get(builders[Target], k_sortDirection) =
              (IF call.args[2] = Undefined THEN ASC ELSE call.args[2])

(* sort('createdAt') on a builder sorted by name DESC left createdAt ASC. *)
C18_Witness ==
    /\ op = "sort"
    /\ call.args[2] = Undefined
    /\ Get(before.builders[Target], k_sortDirection) = DESC
    /\ builders[Target][k_sortBy] = Str(createdAt)
    /\ builders[Target][k_sortDirection] = ASC

(* C19: build() returns the bag of the builder as it is, the keys of the
   base parameters and of the calls made so far with the values most
   recently given, and leaves every builder and array as it was; a build()
   right after a build() on the same builder returns an equal bag. *)
C19_BuildReturnsTheBag ==
    /\ [](op = "build" =>
            /\ result = Return(Obj(latest[Target]))
            /\ result = Return(Obj(builders[Target]))
            /\ builders = before.builders
            /\ heap = before.heap)
    /\ [][(op = "build" /\ op' = "build" /\ call'.target = call.target)
             => result' = result]_vars

(* build() on a builder over { limit: 5 } after search('jo') and
   param('tenant', 7) returned limit 5, search 'jo' and tenant 7. *)
C19_Witness ==
    /\ op = "build"
    /\ result =
          Return(Obj([k \in {k_limit, k_search, k_tenant} |->
              CASE k = k_limit -> Num(5)
                [] k = k_search -> Str(jo)
                [] k = k_tenant -> Num(7)]))

----------------------------------------------------------------------------
(* Further properties of the translator *)

(* C21: for the LIKE operator the caller's string is the pattern itself: the
   relational translation of the one condition (field, like, value) is
   { field: { $like: value } }, so '%jo%' gives the pattern '%jo%'. *)
C21_LikeValueIsThePattern ==
    (/\ op = "toTypeORMWhere"
     /\ filters.t = "array"
     /\ Len(filters.a) = 1
     /\ filters.a[1].operator = LIKE
     /\ filters.a[1].value.t = "string") =>
        result = Return(Obj1(filters.a[1].field, Obj1(k_like, filters.a[1].value)))

----------------------------------------------------------------------------
(* Further properties of the pagination model *)

(* The number of pages createPaginationMeta counts for the arguments
   drawn. *)
TotalPages == createPaginationMeta(args.page, args.limit, args.total).value.o[k_totalPages].n

(* C26: hasNext of createPaginationMeta(page, limit, total) is true exactly
   when page * limit < total; and for a request with the same page and limit
   and no skip, whenever 1 <= page <= totalPages, getSkip's (page - 1) * limit
   is less than total. *)
C26_HasNextAndSkipInRange ==
    /\ op = "createPaginationMeta" =>
          Meta[k_hasNext] = Bool(args.page * args.limit < args.total)
    /\ (/\ op = "getSkip"
        /\ args # Undefined
        /\ Supplied("page")
        /\ ~Supplied("skip")
        /\ args.page >= 1
        /\ args.page <= TotalPages) =>
          /\ result.kind = "return"
          /\ result.value = Num((args.page - 1) * args.limit)
          /\ result.value.n < args.total

(* getSkip returned 20 for page 3 and limit 10, the last of the three pages
   of 25 items. *)
C26_Witness ==
    /\ op = "getSkip"
    /\ args = [page |-> 3, limit |-> 10, total |-> 25]
    /\ request = [page |-> Num(3), limit |-> Num(10)]
    /\ TotalPages = 3
    /\ result = Return(Num(20))

----------------------------------------------------------------------------
(* Further properties of the QueryBuilder model *)

Setters ==
    {"paginate", "skip", "cursor", "sort", "search", "filter", "filters",
     "logicalOperator", "param"}

(* The keys the last setter call names. *)
KeysOfCall ==
    CASE op \in {"paginate", "skip", "cursor"} -> NamedKeys
      [] op = "sort" -> {k_sortBy, k_sortDirection}
      [] op = "search" -> {k_search}
      [] op \in {"filter", "filters"} -> {k_filters}
      [] op = "logicalOperator" -> {k_logicalOperator}
      [] op = "param" -> {call.args[1].s}

(* C27: a setter changes only the keys it names: every other key of the
   builder's bag is in the bag after the call exactly when it was before,
   with the same value. *)
C27_SettersTouchOnlyTheirKeys ==
    op \in Setters =>
        LET was == Deref(before.heap, before.builders[Target])
            is == Deref(heap, builders[Target])
        IN \A k \in (DOMAIN was \cup DOMAIN is) \ KeysOfCall :
              /\ k \in DOMAIN was
              /\ k \in DOMAIN is
              /\ is[k] = was[k]

(* param('limit', 7) on a bag with skip 0 and limit 50 left skip 0 and set
   limit 7. *)
C27_Witness ==
    /\ op = "param"
    /\ call.args = <<Str(k_limit), Num(7)>>
    /\ before.builders[Target] = Obj2(k_skip, Num(0), k_limit, Num(50)).o
    /\ builders[Target] = Obj2(k_skip, Num(0), k_limit, Num(7)).o

(* C28: the condition lists of the caller, given to filters(list) or inside
   the base parameters, keep their length and contents whatever calls are
   made on the builders. *)
C28_CallerListsUntouched ==
    \A i \in DOMAIN CallerLists : heap[i] = CallerLists[i]

----------------------------------------------------------------------------
(* ApiClient: the axios wrapper *)

k_message == <<"m", "e", "s", "s", "a", "g", "e">>
k_status == <<"s", "t", "a", "t", "u", "s">>
k_data == <<"d", "a", "t", "a">>

(* The printable ASCII characters from the space (code 32) on, and the
   base64 alphabet.  The grave accent (code 96) is written by its name. *)
Ascii == <<
      " ", "!", "\"", "#", "$", "%", "&", "'", "(", ")", "*", "+", ",", "-",
      ".", "/", "0", "1", "2", "3", "4", "5", "6", "7", "8", "9", ":", ";",
      "<", "=", ">", "?", "@", "A", "B", "C", "D", "E", "F", "G", "H", "I",
      "J", "K", "L", "M", "N", "O", "P", "Q", "R", "S", "T", "U", "V", "W",
      "X", "Y", "Z", "[", "\\", "]", "^", "_", "grave", "a", "b", "c", "d", "e",
      "f", "g", "h", "i", "j", "k", "l", "m", "n", "o", "p", "q", "r", "s",
      "t", "u", "v", "w", "x", "y", "z", "{", "|", "}", "~" >>
Base64Alphabet == <<
      "A", "B", "C", "D", "E", "F", "G", "H", "I", "J", "K", "L", "M", "N",
      "O", "P", "Q", "R", "S", "T", "U", "V", "W", "X", "Y", "Z", "a", "b",
      "c", "d", "e", "f", "g", "h", "i", "j", "k", "l", "m", "n", "o", "p",
      "q", "r", "s", "t", "u", "v", "w", "x", "y", "z", "0", "1", "2", "3",
      "4", "5", "6", "7", "8", "9", "+", "/" >>

(* Buffer.from(string): the bytes of an ASCII string. *)
CharCode(c) == 31 + (CHOOSE i \in DOMAIN Ascii : Ascii[i] = c)
BufferFrom(s) == [i \in DOMAIN s |-> CharCode(s[i])]

(* buffer.toString('base64'): four characters for every three bytes, the
   last group padded with '='. *)
RECURSIVE toBase64(_)
toBase64(bytes) ==
    IF Len(bytes) = 0 THEN <<>>
    ELSE LET b2 == IF Len(bytes) >= 2 THEN bytes[2] ELSE 0
             b3 == IF Len(bytes) >= 3 THEN bytes[3] ELSE 0
             n == bytes[1] * 65536 + b2 * 256 + b3
         IN << Base64Alphabet[(n \div 262144) + 1],
               Base64Alphabet[((n \div 4096) % 64) + 1],
               IF Len(bytes) >= 2 THEN Base64Alphabet[((n \div 64) % 64) + 1] ELSE "=",
               IF Len(bytes) >= 3 THEN Base64Alphabet[(n % 64) + 1] ELSE "=" >>
            \o toBase64(SubSeq(bytes, 4, Len(bytes)))

Bearer == <<"B", "e", "a", "r", "e", "r", " ">>
Basic == <<"B", "a", "s", "i", "c", " ">>

(* setAuthToken(token): the Authorization default header is
   `Bearer ${token}`. *)
setAuthToken(token) == Str(Bearer \o ToString(token))

(* setBasicAuth(username, password): the Authorization default header is
   `Basic ${encoded}`, encoded the base64 of `${username}:${password}`. *)
setBasicAuth(username, password) ==
    LET encoded == toBase64(BufferFrom(ToString(username) \o <<":">> \o ToString(password)))
    IN Str(Basic \o encoded)

(* config.auth?.x: undefined when config has no auth or auth has no x. *)
AuthOf(config, x) ==
    IF "auth" \in DOMAIN config /\ x \in DOMAIN config.auth THEN config.auth[x]
    ELSE Undefined

(* The constructor trying username and password before the token. *)
ApiClientBasicFirst(config) ==
    IF ~Falsy(AuthOf(config, "username")) /\ ~Falsy(AuthOf(config, "password"))
    THEN setBasicAuth(config.auth.username, config.auth.password)
    ELSE IF ~Falsy(AuthOf(config, "token")) THEN setAuthToken(config.auth.token)
    ELSE Undefined

(* constructor(config): the Authorization default header of the new axios
   instance. *)
ApiClient(config) ==
    IF ~Falsy(AuthOf(config, "token")) THEN setAuthToken(config.auth.token)
    ELSE IF ~Falsy(AuthOf(config, "username")) /\ ~Falsy(AuthOf(config, "password"))
    THEN setBasicAuth(config.auth.username, config.auth.password)
    ELSE Undefined

(* new Error(message) with the own properties given: the message is the
   string conversion of the argument. *)
NewError(message, own) ==
    [t |-> "error",
     message |-> IF message = Undefined THEN Str(<<>>) ELSE Str(ToString(message)),
     own |-> own]

NoResponse == <<"N", "o", " ", "r", "e", "s", "p", "o", "n", "s", "e", " ", "r", "e", "c", "e", "i", "v", "e", "d", " ", "f", "r", "o", "m", " ", "s", "e", "r", "v", "e", "r">>

(* error.response.data?.message *)
MessageOf(data) ==
    IF data.t = "object" /\ k_message \in DOMAIN data.o THEN data.o[k_message]
    ELSE Undefined

(* handleError without the status and data of the response. *)
handleErrorMessageOnly(error) ==
    IF ~Falsy(error.response)
    THEN LET bodyMessage == MessageOf(error.response.data)
             message == IF Falsy(bodyMessage) THEN error.response.statusText
                        ELSE bodyMessage
         IN NewError(message, <<>>)
    ELSE IF ~Falsy(error.request)
    THEN NewError(Str(NoResponse), <<>>)
    ELSE error

(* private handleError(error) *)
handleError(error) ==
    IF ~Falsy(error.response)
    THEN LET bodyMessage == MessageOf(error.response.data)
             message == IF Falsy(bodyMessage) THEN error.response.statusText
                        ELSE bodyMessage
         IN NewError(message,
                     Obj2(k_status, error.response.status, k_data, error.response.data).o)
    ELSE IF ~Falsy(error.request)
    THEN NewError(Str(NoResponse), <<>>)
    ELSE error

(* private wrapResponse(response) *)
wrapResponse(response) ==
    [data |-> response.data, status |-> response.status,
     statusText |-> response.statusText, headers |-> response.headers]

Resolve(v) == [kind |-> "resolve", value |-> v]
Reject(e) == [kind |-> "reject", value |-> e]

(* The configurations, tokens and credentials drawn. *)
token1 == Str(<<"a", "b", "c">>)
token2 == Str(<<"x", "y", "z">>)
admin == Str(<<"a", "d", "m", "i", "n">>)
secret == Str(<<"s", "e", "c", "r", "e", "t">>)
user == Str(<<"u">>)
pw == Str(<<"p", "w">>)

ApiClientConfigs ==
    {[baseURL |-> "/api"],
     [baseURL |-> "/api", auth |-> [token |-> token1]],
     [baseURL |-> "/api", auth |-> [token |-> token1, username |-> admin, password |-> secret]],
     [baseURL |-> "/api", auth |-> [token |-> Str(<<>>), username |-> admin, password |-> secret]],
     [baseURL |-> "/api", auth |-> [username |-> admin, password |-> secret]],
     [baseURL |-> "/api", auth |-> [username |-> admin]]}

TokenArgs == {token1, token2}
CredentialArgs == {<<admin, secret>>, <<user, pw>>}

(* What axios makes of a request: a response with a 2xx status fulfils it;
   a response with another status, no response at all, or a failure while
   the request is set up rejects it with an error that holds the response,
   the request, or neither. *)
Response(status, statusText, data) ==
    [t |-> "object", status |-> Num(status), statusText |-> Str(statusText),
     data |-> data, headers |-> EmptyObject]
AxiosError(message, request_, response) ==
    [t |-> "error", message |-> Str(message), request |-> request_, response |-> response]

OK == <<"O", "K">>
NotFound == <<"N", "o", "t", " ", "F", "o", "u", "n", "d">>
BadRequest == <<"B", "a", "d", " ", "R", "e", "q", "u", "e", "s", "t">>
tooLarge == <<"l", "i", "m", "i", "t", " ", "m", "u", "s", "t", " ", "n", "o", "t", " ", "b", "e", " ", "g", "r", "e", "a", "t", "e", "r", " ", "t", "h", "a", "n", " ", "1", "0", "0">>
notInt == <<"p", "a", "g", "e", " ", "m", "u", "s", "t", " ", "b", "e", " ", "a", "n", " ", "i", "n", "t", "e", "g", "e", "r", " ", "n", "u", "m", "b", "e", "r">>
failed == <<"R", "e", "q", "u", "e", "s", "t", " ", "f", "a", "i", "l", "e", "d">>
networkError == <<"N", "e", "t", "w", "o", "r", "k", " ", "E", "r", "r", "o", "r">>
invalidUrl == <<"I", "n", "v", "a", "l", "i", "d", " ", "U", "R", "L">>
html == <<"<", "h", "t", "m", "l", ">">>

Bodies ==
    {Undefined, Null, Str(html), EmptyObject,
     Obj1(k_message, Str(<<>>)),
     Obj1(k_message, Str(NotFound)),
     Obj1(k_message, Arr(<<Str(tooLarge), Str(notInt)>>))}

SuccessResponses ==
    {Response(200, OK, Obj1(k_data, Arr(<<>>))), Response(200, OK, Obj1(k_message, Str(OK)))}
ErrorResponses ==
    {Response(400, BadRequest, d) : d \in Bodies}
        \cup {Response(404, NotFound, d) : d \in Bodies}
        \cup {Response(500, <<>>, d) : d \in Bodies}

XMLHttpRequest == [t |-> "object"]

AxiosOutcomes ==
    {[kind |-> "fulfilled", response |-> r] : r \in SuccessResponses}
        \cup {[kind |-> "rejected", error |-> AxiosError(failed, XMLHttpRequest, r)] :
                r \in ErrorResponses}
        \cup {[kind |-> "rejected", error |-> AxiosError(networkError, XMLHttpRequest, Undefined)],
              [kind |-> "rejected", error |-> AxiosError(invalidUrl, Undefined, Undefined)]}

(* The response interceptor, (response) => response and
   (error) => Promise.reject(this.handleError(error)), and wrapResponse on
   what the request resolves to. *)
Intercept(outcome) ==
    IF outcome.kind = "fulfilled" THEN Resolve(wrapResponse(outcome.response))
    ELSE Reject(handleError(outcome.error))

otherThanApi ==
    <<parserVars, paginationVars, args, builderVars, apolloVars, socketVars, hookVars>>

ApiInit ==
    /\ \E config \in ApiClientConfigs :
          /\ api = [Authorization |-> ApiClient(config)]
          /\ authCall = [method |-> "constructor", args |-> config, previous |-> Undefined]
    /\ exchange = Undefined
    /\ op = "none"
    /\ result = NotCalled
    /\ filters = Undefined
    /\ logicalOperator = Undefined
    /\ sortBy = Undefined
    /\ sortDirection = Undefined
    /\ returned = [o \in OpNames |-> NotCalled]
    /\ NoPagination
    /\ args = Undefined
    /\ NoBuilders
    /\ NoApollo
    /\ NoSocket
    /\ NoHook

SetAuthToken ==
    \E token \in TokenArgs :
        /\ api' = [api EXCEPT !.Authorization = setAuthToken(token)]
        /\ authCall' = [method |-> "setAuthToken", args |-> <<token>>,
                        previous |-> api.Authorization]
        /\ op' = "setAuthToken"
        /\ result' = Return(Undefined)
        /\ UNCHANGED <<exchange, otherThanApi>>

SetBasicAuth ==
    \E c \in CredentialArgs :
        /\ api' = [api EXCEPT !.Authorization = setBasicAuth(c[1], c[2])]
        /\ authCall' = [method |-> "setBasicAuth", args |-> c,
                        previous |-> api.Authorization]
        /\ op' = "setBasicAuth"
        /\ result' = Return(Undefined)
        /\ UNCHANGED <<exchange, otherThanApi>>

(* get, post, put, patch or delete: the request carries the default
   headers of the instance, and what axios makes of it goes through the
   interceptor. *)
Request ==
    \E outcome \in AxiosOutcomes :
        /\ exchange' = [Authorization |-> api.Authorization, outcome |-> outcome]
        /\ result' = Intercept(outcome)
        /\ op' = "request"
        /\ UNCHANGED <<api, authCall, otherThanApi>>

ApiNext == SetAuthToken \/ SetBasicAuth \/ Request

ApiSpec == ApiInit /\ [][ApiNext]_vars

----------------------------------------------------------------------------
(* Properties of the ApiClient model *)

Failure == exchange.outcome.error
HasResponse == exchange.outcome.kind = "rejected" /\ Failure.response # Undefined
NoResponseReceived ==
    /\ exchange.outcome.kind = "rejected"
    /\ Failure.response = Undefined
    /\ Failure.request # Undefined

(* The message of the body of the error response, when the body is an object
   that has a message which is not empty; the status text otherwise. *)
BodyMessageOrStatusText ==
    LET data == Failure.response.data
    IN IF data.t = "object" /\ k_message \in DOMAIN data.o /\ data.o[k_message] # Str(<<>>)
       THEN data.o[k_message]
       ELSE Failure.response.statusText

(* The parts of C22 that do not concern the message of an error response. *)
UniformShape ==
    /\ exchange.outcome.kind = "fulfilled" <=> result.kind = "resolve"
    /\ exchange.outcome.kind = "rejected" <=> result.kind = "reject"
    /\ result.kind = "reject" => result.value.message.t = "string"
    /\ HasResponse =>
          result.value.own = Obj2(k_status, Failure.response.status,
                                  k_data, Failure.response.data).o
    /\ NoResponseReceived =>
          /\ result.value.message = Str(NoResponse)
          /\ result.value.own = <<>>

(* C22 as stated: a failed request is rejected with an error that has a
   message and may have a status and data: after an error response the
   message is the message of the response body, or else the status text, and
   status and data are those of the response; without a response the message
   is 'No response received from server' and there is no status and no data;
   a successful response is never turned into an error. *)
C22_UniformError ==
    op = "request" =>
        /\ UniformShape
        /\ HasResponse => result.value.message = BodyMessageOrStatusText

(* C22 amended: as stated, but the message of the error is the string
   conversion of the message of the response body (an array of messages
   joined by commas), or else the status text. *)
C22_UniformErrorStringMessage ==
    op = "request" =>
        /\ UniformShape
        /\ HasResponse => result.value.message = Str(ToString(BodyMessageOrStatusText))

(* A 400 response whose body lists two validation messages was rejected with
   the two messages joined by a comma, status 400 and the body as data. *)
C22_Witness ==
    /\ op = "request"
    /\ HasResponse
    /\ Failure.response.status = Num(400)
    /\ Failure.response.data = Obj1(k_message, Arr(<<Str(tooLarge), Str(notInt)>>))
    /\ result.kind = "reject"
    /\ result.value.message = Str(tooLarge \o <<",">> \o notInt)
    /\ result.value.own[k_status] = Num(400)
    /\ result.value.own[k_data] = Failure.response.data

(* The Authorization header the last authentication call asks for. *)
HeaderAskedFor ==
    CASE authCall.method = "setAuthToken" -> Str(Bearer \o authCall.args[1].s)
      [] authCall.method = "setBasicAuth" ->
            Str(Basic \o toBase64(BufferFrom(authCall.args[1].s \o <<":">> \o authCall.args[2].s)))
      [] authCall.method = "constructor" ->
            LET config == authCall.args
                has(x) == "auth" \in DOMAIN config /\ x \in DOMAIN config.auth
                                /\ config.auth[x] # Str(<<>>)
            IN IF has("token") THEN Str(Bearer \o config.auth.token.s)
               ELSE IF has("username") /\ has("password")
               THEN Str(Basic \o toBase64(BufferFrom(
                        config.auth.username.s \o <<":">> \o config.auth.password.s)))
               ELSE Undefined

(* C25: the instance holds one Authorization header, the one of the last
   authentication call, and every request carries it: 'Bearer <token>' for a
   configuration with a token, also when it has a username and a password,
   'Basic <base64(username:password)>' for one with only username and
   password, and the header of a later setAuthToken or setBasicAuth in the
   place of the one before. *)
C25_LastAuthenticationDecides ==
    /\ api.Authorization = HeaderAskedFor
    /\ op = "request" => exchange.Authorization = HeaderAskedFor

(* A request after setBasicAuth('admin', 'secret') on a client made with a
   token carried 'Basic YWRtaW46c2VjcmV0'. *)
C25_Witness ==
    /\ op = "request"
    /\ authCall.method = "setBasicAuth"
    /\ authCall.args = <<admin, secret>>
    /\ authCall.previous = Str(Bearer \o token1.s)
    /\ exchange.Authorization = Str(Basic \o <<"Y", "W", "R", "t", "a", "W", "4", "6", "c", "2", "V", "j", "c", "m", "V", "0">>)

----------------------------------------------------------------------------
(* Apollo client: createApolloClient and setApolloAuthToken *)

k_authorization == <<"a", "u", "t", "h", "o", "r", "i", "z", "a", "t", "i", "o", "n">>
k_tenantHeader == <<"x", "-", "t", "e", "n", "a", "n", "t">>

(* The auth middleware: when config.authToken is truthy the context of the
   operation gets headers: { authorization: `Bearer ${config.authToken}` };
   gives the headers of the context. *)
authLink(config) ==
    IF ~Falsy(config.authToken)
    THEN Obj1(k_authorization, Str(Bearer \o ToString(config.authToken)))
    ELSE EmptyObject

(* HttpLink: the request carries the headers of the link and, over them,
   the headers of the operation's context. *)
httpLink(config, contextHeaders) == Spread(config.headers, contextHeaders)

(* createApolloClient(config): the client and the configuration its links
   closed over. *)
createApolloClient(config) == [config |-> config, client |-> <<>>]

(* setApolloAuthToken(client, token): (client as any).__authToken = token *)
setApolloAuthToken(a, token) ==
    [a EXCEPT !.client = [k \in DOMAIN a.client \cup {"__authToken"} |->
                             IF k = "__authToken" THEN token ELSE a.client[k]]]

ApolloClientConfigs ==
    [authToken : {Undefined, Str(<<>>), token1, token2},
     headers : {EmptyObject, Obj1(k_tenantHeader, Str(<<"t", "1">>))}]

OperationKinds == {"query", "mutate", "watchQuery"}

otherThanApollo ==
    <<parserVars, paginationVars, args, builderVars, apiVars, socketVars, hookVars>>

ApolloInit ==
    /\ \E config \in ApolloClientConfigs : apollo = createApolloClient(config)
    /\ operation = Undefined
    /\ op = "none"
    /\ result = NotCalled
    /\ filters = Undefined
    /\ logicalOperator = Undefined
    /\ sortBy = Undefined
    /\ sortDirection = Undefined
    /\ returned = [o \in OpNames |-> NotCalled]
    /\ NoPagination
    /\ args = Undefined
    /\ NoBuilders
    /\ NoApi
    /\ NoSocket
    /\ NoHook

SetApolloAuthToken ==
    \E token \in TokenArgs :
        /\ apollo' = setApolloAuthToken(apollo, token)
        /\ op' = "setApolloAuthToken"
        /\ result' = Return(Undefined)
        /\ UNCHANGED <<operation, otherThanApollo>>

(* An operation goes through from([errorLink, authLink, httpLink]). *)
Send ==
    \E kind \in OperationKinds :
        /\ operation' = [kind |-> kind,
                         headers |-> httpLink(apollo.config, authLink(apollo.config)).o]
        /\ op' = "send"
        /\ result' = Return(Undefined)
        /\ UNCHANGED <<apollo, otherThanApollo>>

ApolloNext == SetApolloAuthToken \/ Send

ApolloSpec == ApolloInit /\ [][ApolloNext]_vars

----------------------------------------------------------------------------
(* Properties of the Apollo client model *)

(* C23: every operation sent after a setApolloAuthToken call carries the
   header authorization: 'Bearer <token>' with the token given to the most
   recent call. *)
C23_TokenOfLastCallIsSent ==
    (op = "send" /\ "__authToken" \in DOMAIN apollo.client) =>
        /\ k_authorization \in DOMAIN operation.headers
        /\ operation.headers[k_authorization] = Str(Bearer \o apollo.client.__authToken.s)

----------------------------------------------------------------------------
(* SocketClient: the socket.io-client wrapper *)

(* The socket of socket.io-client.  state: closed, opening (connect() was
   called, the transport is not open yet), handshaking (the CONNECT packet
   went out with the auth of that moment, in handshake), open (connected).
   The socket emits 'connect' when it becomes open and 'disconnect' when it
   stops being open, in the same step. *)
Socket(auth, state) == [auth |-> auth, state |-> state, handshake |-> Undefined]

(* socket.connect(): a closed socket starts to open; one that is opening,
   handshaking or open stays as it is. *)
socket_connect(sock) ==
    IF sock.state = "closed" THEN [sock EXCEPT !.state = "opening"] ELSE sock

(* socket.disconnect(): the socket is closed and gives up a connection it
   was making. *)
socket_disconnect(sock) == [sock EXCEPT !.state = "closed", !.handshake = Undefined]

(* The wrapper with its flag and its socket. *)
Client(flag, sock) == [isConnected |-> flag, socket |-> sock]

(* The handlers of setupEventHandlers run inside the step that changes the
   state of the socket: the flag follows the socket into and out of open. *)
Emitted(was, sock) ==
    IF was.socket.state # "open" /\ sock.state = "open" THEN Client(TRUE, sock)
    ELSE IF was.socket.state = "open" /\ sock.state # "open" THEN Client(FALSE, sock)
    ELSE Client(was.isConnected, sock)

(* constructor(config): io(url, options) with autoConnect: false unless the
   options say otherwise, and auth: { token } when config.authToken is
   truthy. *)
SocketClient(config) ==
    Client(FALSE,
           Socket(IF ~Falsy(config.authToken) THEN [token |-> config.authToken] ELSE Undefined,
                  IF config.autoConnect THEN "opening" ELSE "closed"))

(* connect(): if (!this.isConnected) this.socket.connect() *)
connect(c) ==
    IF ~c.isConnected THEN Emitted(c, socket_connect(c.socket)) ELSE c

(* disconnect(): if (this.isConnected) this.socket.disconnect() *)
disconnect(c) ==
    IF c.isConnected THEN Emitted(c, socket_disconnect(c.socket)) ELSE c

(* setAuthToken storing the token without reconnecting. *)
setSocketAuthTokenOnly(c, token) ==
    [c EXCEPT !.socket.auth = [token |-> token]]

(* setAuthToken(token): the token goes into socket.auth; if
   (this.isConnected) { this.disconnect(); this.connect(); } *)
setSocketAuthToken(c, token) ==
    LET stored == [c EXCEPT !.socket.auth = [token |-> token]]
    IN IF stored.isConnected THEN connect(disconnect(stored)) ELSE stored

SocketClientConfigs == [authToken : {Undefined, token1}, autoConnect : BOOLEAN]

This_ == Client(isConnected, socket)

otherThanSocket ==
    <<filters, logicalOperator, sortBy, sortDirection, returned, paginationVars,
      builderVars, apiVars, apolloVars, hookVars>>

SocketInit ==
    /\ \E config \in SocketClientConfigs :
          /\ isConnected = SocketClient(config).isConnected
          /\ socket = SocketClient(config).socket
    /\ closed = FALSE
    /\ wasConnected = FALSE
    /\ op = "none"
    /\ result = NotCalled
    /\ filters = Undefined
    /\ logicalOperator = Undefined
    /\ sortBy = Undefined
    /\ sortDirection = Undefined
    /\ returned = [o \in OpNames |-> NotCalled]
    /\ NoPagination
    /\ args = Undefined
    /\ NoBuilders
    /\ NoApi
    /\ NoApollo
    /\ NoHook

(* A call on the wrapper, with its arguments, that leaves it as after. *)
SocketCall(arguments, after, closed_) ==
    /\ isConnected' = after.isConnected
    /\ socket' = after.socket
    /\ closed' = closed_
    /\ wasConnected' = isConnected
    /\ args' = arguments
    /\ result' = Return(Undefined)
    /\ UNCHANGED otherThanSocket

Connect ==
    /\ op' = "connect"
    /\ SocketCall(<<>>, connect(This_), FALSE)

Disconnect ==
    /\ op' = "disconnect"
    /\ SocketCall(<<>>, disconnect(This_), TRUE)

(* The reconnect of setAuthToken is a connect() call. *)
SetSocketAuthToken ==
    /\ op' = "setAuthToken"
    /\ \E token \in TokenArgs :
          SocketCall(<<token>>, setSocketAuthToken(This_, token),
                     IF isConnected THEN FALSE ELSE closed)

(* An event of the socket that leaves it as sock. *)
SocketEvent(event, sock) ==
    /\ isConnected' = Emitted(This_, sock).isConnected
    /\ socket' = sock
    /\ op' = event
    /\ result' = NotCalled
    /\ UNCHANGED <<closed, wasConnected, args, otherThanSocket>>

(* The transport is open: the CONNECT packet goes out with socket.auth. *)
TransportOpen ==
    /\ socket.state = "opening"
    /\ SocketEvent("on open", [socket EXCEPT !.state = "handshaking", !.handshake = socket.auth])

(* The server accepts the connection: 'connect'. *)
OnConnect ==
    /\ socket.state = "handshaking"
    /\ SocketEvent("on connect", [socket EXCEPT !.state = "open"])

(* The connection attempt fails: 'connect_error', which the wrapper only
   logs; the manager tries again (reconnection: true). *)
OnConnectError ==
    /\ socket.state = "handshaking"
    /\ SocketEvent("on connect_error", [socket EXCEPT !.state = "opening", !.handshake = Undefined])

(* The connection is lost: 'disconnect'; the socket reconnects by itself
   (reconnection: true) unless the server closed it. *)
OnDisconnect ==
    /\ socket.state = "open"
    /\ \E state \in {"opening", "closed"} :
          SocketEvent("on disconnect", [socket EXCEPT !.state = state, !.handshake = Undefined])

SocketNext ==
    \/ Connect
    \/ Disconnect
    \/ SetSocketAuthToken
    \/ TransportOpen
    \/ OnConnect
    \/ OnConnectError
    \/ OnDisconnect

SocketSpec == SocketInit /\ [][SocketNext]_vars

(* A socket that is opening gets its transport, and the server, asked again
   and again, accepts within the reconnection attempts. *)
SocketFairSpec == SocketSpec /\ WF_vars(TransportOpen) /\ SF_vars(OnConnect)

----------------------------------------------------------------------------
(* Properties of the SocketClient model *)

StoredToken == [token |-> args[1]]

ConnectedWith(token) ==
    socket.state = "open" /\ isConnected /\ socket.handshake = [token |-> token]

(* C24: setAuthToken(token) stores the token in socket.auth; on a connected
   client it drops the connection and starts a new one, and the client is
   then eventually connected with that token, unless the caller stores
   another token before the connection is made; on a client that is not
   connected the socket stays in the state it was in and no connection is
   started. *)
C24_SetAuthTokenReconnects ==
    /\ [][op' = "setAuthToken" =>
            /\ socket'.auth = [token |-> args'[1]]
            /\ IF isConnected
               THEN socket'.state = "opening" /\ socket'.handshake = Undefined /\ ~isConnected'
               ELSE /\ socket'.state = socket.state
                    /\ socket'.handshake = socket.handshake
                    /\ ~isConnected']_vars
    /\ \A token \in TokenArgs :
          (op = "setAuthToken" /\ wasConnected /\ args = <<token>>)
              ~> (ConnectedWith(token) \/ (op = "setAuthToken" /\ ~wasConnected))

C24_Witness ==
    /\ op = "setAuthToken"
    /\ wasConnected
    /\ socket.auth = StoredToken
    /\ socket.state = "opening"

(* C29: while disconnect() is the last of the calls connect() and
   disconnect() that was made, the socket is not connected. *)
C29_ClosedStaysClosed == closed => socket.state # "open" /\ ~isConnected

----------------------------------------------------------------------------
(* useSocketEmit: the emit hook *)

(* useState(false), useState(null), useState(null) *)
useSocketEmit == [isLoading |-> FALSE, error |-> Null, data |-> Null]

Pending == [kind |-> "pending"]

(* emitWithAck: the acknowledgement callback(err, response) settles the
   promise: err ? reject(err) : resolve(response). *)
emitWithAck(err, response) ==
    IF ~Falsy(err) THEN Reject(err) ELSE Resolve(response)

(* err instanceof Error ? err : new Error(String(err)) *)
ErrorOf(err) == IF err.t = "error" THEN err ELSE NewError(err, Undefined)

(* emit, up to the await: setIsLoading(true); setError(null) *)
emitStart(h) == [h EXCEPT !.isLoading = TRUE, !.error = Null]

(* emit, from the await on: setData(response) or setError(error), then
   setIsLoading(false) in finally; the promise of emit settles as the
   promise of emitWithAck did, with the error made an Error. *)
emitSettle(h, settled) ==
    IF settled.kind = "resolve"
    THEN [hook |-> [h EXCEPT !.data = settled.value, !.isLoading = FALSE],
          promise |-> Resolve(settled.value)]
    ELSE [hook |-> [h EXCEPT !.error = ErrorOf(settled.value), !.isLoading = FALSE],
          promise |-> Reject(ErrorOf(settled.value))]

(* The number of emits started through the hook. *)
MaxEmits == 3

timedOut == <<"o", "p", "e", "r", "a", "t", "i", "o", "n", " ", "h", "a", "s", " ", "t", "i", "m", "e", "d", " ", "o", "u", "t">>

(* What the acknowledgement callback is called with: a response of the
   server, or the error of socket.timeout(5000). *)
Acknowledgements ==
    {<<Null, Str(OK)>>, <<Null, Obj1(k_data, Num(1))>>}

Timeouts == {<<NewError(Str(timedOut), Undefined), Undefined>>}

otherThanHook ==
    <<filters, logicalOperator, sortBy, sortDirection, returned, paginationVars,
      args, builderVars, apiVars, apolloVars, socketVars>>

HookInit ==
    /\ hook = useSocketEmit
    /\ emits = <<>>
    /\ op = "none"
    /\ result = NotCalled
    /\ filters = Undefined
    /\ logicalOperator = Undefined
    /\ sortBy = Undefined
    /\ sortDirection = Undefined
    /\ returned = [o \in OpNames |-> NotCalled]
    /\ NoPagination
    /\ args = Undefined
    /\ NoBuilders
    /\ NoApi
    /\ NoApollo
    /\ NoSocket

(* emit(event, payload) runs up to its await. *)
Emit ==
    /\ Len(emits) < MaxEmits
    /\ hook' = emitStart(hook)
    /\ emits' = Append(emits, Pending)
    /\ op' = "emit"
    /\ result' = NotCalled
    /\ UNCHANGED otherThanHook

(* The acknowledgement of the i-th emit arrives and the emit runs to its
   end. *)
Settle(i, ack) ==
    /\ emits[i] = Pending
    /\ hook' = emitSettle(hook, emitWithAck(ack[1], ack[2])).hook
    /\ emits' = [emits EXCEPT ![i] = emitSettle(hook, emitWithAck(ack[1], ack[2])).promise]
    /\ result' = emits'[i]
    /\ UNCHANGED otherThanHook

Acknowledge ==
    /\ op' = "acknowledge"
    /\ \E i \in DOMAIN emits : \E ack \in Acknowledgements : Settle(i, ack)

TimeOut ==
    /\ op' = "timeout"
    /\ \E i \in DOMAIN emits : \E ack \in Timeouts : Settle(i, ack)

HookNext ==
    \/ Emit
    \/ Acknowledge
    \/ TimeOut

HookSpec == HookInit /\ [][HookNext]_vars

----------------------------------------------------------------------------
(* Properties of the useSocketEmit model *)

Outstanding == {i \in DOMAIN emits : emits[i] = Pending}

(* C30: isLoading is true exactly while an emit started through the hook
   is outstanding, and when an emit has just completed, data holds its
   response if it succeeded and error holds its failure if it failed. *)
C30_LoadingWhileOutstanding ==
    /\ hook.isLoading <=> Outstanding # {}
    /\ op = "acknowledge" => hook.data = result.value
    /\ op = "timeout" => hook.error = result.value

====
